---- MODULE Spec2Model ----
(***************************************************************************)
(* A model of the extraction-and-normalization layer of DownBallotR:       *)
(*   - Ballotpedia candidate-cell traversal and district-table columns     *)
(*   - North Carolina contest-name grammar, normalization and rollups      *)
(*   - ElectionStats search-result and locality-detail parsers and the     *)
(*     county builders                                                     *)
(* Every part has its own specification (SpecCell, SpecAgg, ...) over the  *)
(* variables of that part; the variables of the other parts stay idle.     *)
(***************************************************************************)
EXTENDS Integers, Sequences, FiniteSets, TLC

VARIABLES
    \* ---- Ballotpedia: SchoolBoardScraper._parse_candidate_cell
    td,              \* the candidates cell: its nodes in document order
    child_i,         \* how many element children the loop has consumed
    pending_winner,  \* the loop's pending-winner flag
    results,         \* the tuples emitted so far
    \* ---- North Carolina: aggregate_county_to_state
    df_county,       \* the county-level input frame
    out,             \* the state-level frame returned
    agg_pc,          \* "input" | "done" | "raised"
    \* ---- Ballotpedia: the column resolver of _parse_year_page
    headers,         \* the cleaned texts of the header row's cells
    cols,            \* the resolved column indices (0-based; None when absent)
    col_pc,          \* "input" | "done"
    \* ---- North Carolina: normalize / canonicalize
    nc_df,           \* the contest_name column of the frame being finalized
    nc_out,          \* the rows of the finalized frame
    nc_pc,           \* "input" | "done"
    \* ---- ElectionStats: the locality-detail parsers
    loc_page,        \* the detail page: header names and locality rows
    loc_call,        \* the arguments: candidate_id_map and state
    loc_out,         \* the rows of the frame returned
    loc_pc,          \* "input" | "classic_done" | "v2_done" | "raised"
    \* ---- ElectionStats: parse_search_results
    sr_page,         \* the search-result rows (races) of the page
    sr_out,          \* the ElectionSearchRow records returned
    sr_pc,           \* "input" | "done"
    \* ---- ElectionStats: the county builders
    state_df,        \* the statewide frame: a detail URL per row, and what
                     \* fetching it gives
    bd_mode,         \* "sequential" | "parallel"
    bd_left,         \* the jobs (row numbers) not yet completed
    bd_frames,       \* the frames collected so far
    bd_log,          \* the messages printed so far
    bd_pc,           \* "input" | "running" | "done"
    bd_result,       \* the frame returned
    \* ---- Ballotpedia: SchoolBoardScraper._get_html and scrape_year
    fetch_env,       \* what the site and the browser do for the URL
    pw_calls,        \* how many times the Playwright fetcher was entered
    fetch_log,       \* the messages printed so far
    fetch_ret,       \* what _get_html returned: a page or None
    year_rows,       \* what scrape_year returned
    fetch_pc,        \* "input" | "fetched" | "done" | "raised"
    \* ---- ElectionStats: iter_search_results over the pages of a search
    it_site,         \* the search pages the site serves, and the call arguments
    it_page,         \* page: the page number asked for next
    it_iter,         \* how many turns of the for loop have begun
    seen_keys,       \* the (election_id, candidate_id) keys yielded so far
    it_yielded,      \* the rows yielded so far, in order
    it_pc,           \* "input" | "loop" | "done" | "raised"
    \* ---- ElectionStats: _join_county_with_state
    county_all,      \* the county frame: its columns and rows
    state_all,       \* the statewide frame: its columns and rows
    joined,          \* the frame returned
    join_pc,         \* "input" | "done" | "raised"
    \* ---- NorthCarolina: aggregate_to_county_level, then aggregate_county_to_state
    roll_df,         \* the precinct-level frame: missing columns and rows
    county_out,      \* the county-level frame
    state_out,       \* the state-level frame
    roll_pc,         \* "input" | "county" | "done" | "raised"
    \* ---- Ballotpedia: SchoolBoardScraper.scrape_joined_to_dataframe
    sj_world,        \* the year page and the district pages the site serves
    district_rows,   \* the rows scrape_year returned
    sj_i,            \* how many district rows the loop has handled
    all_results,     \* the candidate rows collected so far
    sj_out,          \* the frame returned
    sj_pc,           \* "input" | "loop" | "done" | "raised"
    \* ---- Ballotpedia: scrape_school_boards.main
    cli_args,        \* the arguments, the current year and what the site serves per year
    cli_year,        \* year: the loop variable of the running phase
    all_districts,   \* the district rows collected
    all_cands,       \* the candidate rows collected
    cli_files,       \* the output files written
    cli_exit,        \* the exit status of the process, -1 while it runs
    cli_pc,          \* "parse" | "districts" | "candidates" | "joined" | "exit"
    \* ---- NorthCarolina: aggregate_county_to_state on rows with a winner-status column
    won_df,          \* the county-level frame, with its winner-status column
    won_out,         \* the state-level frame
    won_pc,          \* "input" | "done"
    \* ---- NorthCarolina: NcElectionPipeline.run
    pipe_in,         \* the elections the index lists, the date range asked for, the minimum date
    supported,       \* supported: the elections to scrape
    skipped,         \* skipped: the elections set aside
    pipe_i,          \* how many supported elections the loop has handled
    pipe_frames,     \* frames: one frame per scraped election
    pipe_failed,     \* failed: the elections whose scrape raised
    downloaded,      \* the elections whose zip was asked for
    pipe_out,        \* the frame returned
    pipe_pc,         \* "input" | "scrape" | "done" | "raised"
    \* ---- ElectionStats: the worker threads of build_county_dataframe_parallel
    par_df,          \* state_df and max_workers
    futures,         \* per submitted job: its state and, when done, its result
    par_collected,   \* the jobs whose future the caller has taken from as_completed
    par_frames,      \* frames: the list only the caller appends to
    par_log,         \* the messages the workers printed
    par_result,      \* the frame returned
    par_pc,          \* "input" | "pool" | "done"
    \* ---- NorthCarolina: _ensure_expected_raw_layout
    hdr_df,          \* the raw frame as read, and the layout of its era
    hdr_out,         \* the frame returned
    hdr_pc,          \* "input" | "A" | "B" | "C" | "D" | "E": the rung taken
    \* ---- Ballotpedia: the data rows of _parse_year_page
    yr_table,        \* the header texts of a table and the cells of one data row
    yr_rows,         \* the rows appended for that data row
    yr_pc,           \* "input" | "done"
    \* ---- Ballotpedia: the votebox rows of _parse_district_page
    vb_box,          \* the results rows of one votebox
    vb_out,          \* the candidate records appended
    vb_pc,           \* "input" | "done"
    \* ---- ElectionStats: one invocation of run_scrape_yearly, from the pages to the joined frame
    inv_site,        \* per election: the candidates of its search row and its detail table
    inv_state,       \* state_all: the statewide rows
    inv_county,      \* county_all: the county rows
    inv_joined,      \* joined_df
    inv_pc,          \* "input" | "state" | "county" | "done"
    \* ---- NorthCarolina: _select_results_member
    zip_members,     \* zf.infolist(): the members of the archive, in order
    zip_ret,         \* the member name returned
    zip_pc           \* "input" | "best" | "largest" | "raised"

cellVars == <<td, child_i, pending_winner, results>>
aggVars == <<df_county, out, agg_pc>>

colVars == <<headers, cols, col_pc>>

ncVars == <<nc_df, nc_out, nc_pc>>

locVars == <<loc_page, loc_call, loc_out, loc_pc>>

srVars == <<sr_page, sr_out, sr_pc>>

bdVars == <<state_df, bd_mode, bd_left, bd_frames, bd_log, bd_pc, bd_result>>

fetchVars == <<fetch_env, pw_calls, fetch_log, fetch_ret, year_rows, fetch_pc>>

iterVars == <<it_site, it_page, it_iter, seen_keys, it_yielded, it_pc>>

joinVars == <<county_all, state_all, joined, join_pc>>

rollVars == <<roll_df, county_out, state_out, roll_pc>>

sjVars == <<sj_world, district_rows, sj_i, all_results, sj_out, sj_pc>>

cliVars == <<cli_args, cli_year, all_districts, all_cands, cli_files, cli_exit, cli_pc>>

wonVars == <<won_df, won_out, won_pc>>

pipeVars == <<pipe_in, supported, skipped, pipe_i, pipe_frames, pipe_failed, downloaded, pipe_out, pipe_pc>>

parVars == <<par_df, futures, par_collected, par_frames, par_log, par_result, par_pc>>

hdrVars == <<hdr_df, hdr_out, hdr_pc>>

yrVars == <<yr_table, yr_rows, yr_pc>>

vbVars == <<vb_box, vb_out, vb_pc>>

invVars == <<inv_site, inv_state, inv_county, inv_joined, inv_pc>>

zipVars == <<zip_members, zip_ret, zip_pc>>

firstVars == <<cellVars, aggVars, colVars, ncVars, locVars, srVars, bdVars>>

laterVars == <<fetchVars, iterVars, joinVars, rollVars, sjVars, cliVars, wonVars, pipeVars, parVars, hdrVars, yrVars, vbVars, invVars, zipVars>>

vars == <<firstVars, laterVars>>

notCellVars == <<aggVars, colVars, ncVars, locVars, srVars, bdVars, laterVars>>
notAggVars == <<cellVars, colVars, ncVars, locVars, srVars, bdVars, laterVars>>
notColVars == <<cellVars, aggVars, ncVars, locVars, srVars, bdVars, laterVars>>
notNcVars == <<cellVars, aggVars, colVars, locVars, srVars, bdVars, laterVars>>
notLocVars == <<cellVars, aggVars, colVars, ncVars, srVars, bdVars, laterVars>>
notSrVars == <<cellVars, aggVars, colVars, ncVars, locVars, bdVars, laterVars>>
notBdVars == <<cellVars, aggVars, colVars, ncVars, locVars, srVars, laterVars>>
notFetchVars == <<firstVars, iterVars, joinVars, rollVars, sjVars, cliVars, wonVars, pipeVars, parVars, hdrVars, yrVars, vbVars, invVars, zipVars>>
notIterVars == <<firstVars, fetchVars, joinVars, rollVars, sjVars, cliVars, wonVars, pipeVars, parVars, hdrVars, yrVars, vbVars, invVars, zipVars>>
notJoinVars == <<firstVars, fetchVars, iterVars, rollVars, sjVars, cliVars, wonVars, pipeVars, parVars, hdrVars, yrVars, vbVars, invVars, zipVars>>
notRollVars == <<firstVars, fetchVars, iterVars, joinVars, sjVars, cliVars, wonVars, pipeVars, parVars, hdrVars, yrVars, vbVars, invVars, zipVars>>
notSjVars == <<firstVars, fetchVars, iterVars, joinVars, rollVars, cliVars, wonVars, pipeVars, parVars, hdrVars, yrVars, vbVars, invVars, zipVars>>
notCliVars == <<firstVars, fetchVars, iterVars, joinVars, rollVars, sjVars, wonVars, pipeVars, parVars, hdrVars, yrVars, vbVars, invVars, zipVars>>
notWonVars == <<firstVars, fetchVars, iterVars, joinVars, rollVars, sjVars, cliVars, pipeVars, parVars, hdrVars, yrVars, vbVars, invVars, zipVars>>
notPipeVars == <<firstVars, fetchVars, iterVars, joinVars, rollVars, sjVars, cliVars, wonVars, parVars, hdrVars, yrVars, vbVars, invVars, zipVars>>
notParVars == <<firstVars, fetchVars, iterVars, joinVars, rollVars, sjVars, cliVars, wonVars, pipeVars, hdrVars, yrVars, vbVars, invVars, zipVars>>
notHdrVars == <<firstVars, fetchVars, iterVars, joinVars, rollVars, sjVars, cliVars, wonVars, pipeVars, parVars, yrVars, vbVars, invVars, zipVars>>
notYrVars == <<firstVars, fetchVars, iterVars, joinVars, rollVars, sjVars, cliVars, wonVars, pipeVars, parVars, hdrVars, vbVars, invVars, zipVars>>
notVbVars == <<firstVars, fetchVars, iterVars, joinVars, rollVars, sjVars, cliVars, wonVars, pipeVars, parVars, hdrVars, yrVars, invVars, zipVars>>
notInvVars == <<firstVars, fetchVars, iterVars, joinVars, rollVars, sjVars, cliVars, wonVars, pipeVars, parVars, hdrVars, yrVars, vbVars, zipVars>>
notZipVars == <<firstVars, fetchVars, iterVars, joinVars, rollVars, sjVars, cliVars, wonVars, pipeVars, parVars, hdrVars, yrVars, vbVars, invVars>>

----------------------------------------------------------------------------
(* Generic helpers *)

Range(s) == {s[i] : i \in 1..Len(s)}

RECURSIVE SeqsUpTo(_, _)
SeqsUpTo(S, n) ==
    IF n = 0 THEN {<<>>}
    ELSE LET shorter == SeqsUpTo(S, n - 1)
         IN shorter \cup {Append(s, x) : s \in {t \in shorter : Len(t) = n - 1}, x \in S}

\* Python's  kw in text  on word-tokenised text: kw occurs as a contiguous run.
ContainsRun(text, kw) ==
    \E k \in 0..(Len(text) - Len(kw)) :
        \A j \in 1..Len(kw) : text[k + j] = kw[j]

\* str.lower() on the words used by the model.
LowerWord(w) ==
    CASE w = "Green" -> "green"
      [] w = "Check" -> "check"
      [] w = "Candidate" -> "candidate"
      [] w = "Connection" -> "connection"
      [] w = "Primary" -> "primary"
      [] w = "PRIMARY" -> "primary"
      [] w = "Runoff" -> "runoff"
      [] w = "Run-off" -> "run-off"
      [] w = "General" -> "general"
      [] w = "Election" -> "election"
      [] w = "District" -> "district"
      [] w = "Term" -> "term"
      [] w = "Length" -> "length"
      [] w = "Seats" -> "seats"
      [] w = "Totals" -> "totals"
      [] OTHER -> w

Lower(text) == [k \in 1..Len(text) |-> LowerWord(text[k])]


----------------------------------------------------------------------------
(* Ballotpedia: the Office/Candidates cell traversal                       *)
(* SchoolBoardScraper._parse_candidate_cell                                *)

\* Longest candidates cell (document nodes) the model explores.
MaxCell == 4

Node(tag, alt, text, href, target) ==
    [tag |-> tag, alt |-> alt, text |-> text, href |-> href,
     target |-> target, tail |-> <<>>]

Href(abs, path, frag) == [abs |-> abs, path |-> path, frag |-> frag]
NoHref == Href(FALSE, "", "")

MarkerImg == Node("img", <<"Green", "check", "mark">>, <<>>, NoHref, "")
LogoImg   == Node("img", <<"Candidate", "Connection">>, <<>>, NoHref, "")
JaneLink  == Node("a", <<>>, <<"Jane Doe">>, Href(FALSE, "/Jane_Doe", ""), "")
JohnLink  == Node("a", <<>>, <<" ", "John Smith", "*", " ">>,
                  Href(TRUE, "/John_Smith", ""), "")
EmptyLink == Node("a", <<>>, <<" ", "*">>, Href(FALSE, "/x", ""), "")
SurveyLink == Node("a", <<>>, <<"Survey">>, Href(TRUE, "/survey", ""), "_blank")
ThemesLink == Node("a", <<>>, <<"Themes">>,
                   Href(FALSE, "/Jane_Doe", "#Campaign_themes"), "")
IncText   == Node("#text", <<>>, <<" ", "(i)">>, NoHref, "")
BrNode    == Node("br", <<>>, <<>>, NoHref, "")

NodePool == {MarkerImg, LogoImg, JaneLink, JohnLink, EmptyLink, SurveyLink,
             ThemesLink, IncText, BrNode}

\* lxml: the text nodes that follow an element, up to the next element, are
\* that element's tail.
RECURSIVE TailFrom(_, _)
TailFrom(nodes, j) ==
    IF j > Len(nodes) \/ nodes[j].tag # "#text" THEN <<>>
    ELSE nodes[j].text \o TailFrom(nodes, j + 1)

\* lxml:  for child in td  yields the element children in document order.
RECURSIVE ChildrenFrom(_, _)
ChildrenFrom(nodes, j) ==
    IF j > Len(nodes) THEN <<>>
    ELSE IF nodes[j].tag = "#text" THEN ChildrenFrom(nodes, j + 1)
    ELSE <<[nodes[j] EXCEPT !.tail = TailFrom(nodes, j + 1)]>>
             \o ChildrenFrom(nodes, j + 1)

Children(nodes) == ChildrenFrom(nodes, 1)

\* str.strip(): drop leading and trailing whitespace.
RECURSIVE LStrip(_)
LStrip(t) == IF t # <<>> /\ Head(t) = " " THEN LStrip(Tail(t)) ELSE t

RECURSIVE RStripTok(_, _)
RStripTok(t, tok) ==
    IF t # <<>> /\ t[Len(t)] = tok THEN RStripTok(SubSeq(t, 1, Len(t) - 1), tok)
    ELSE t

Strip(t) == RStripTok(LStrip(t), " ")

\* child.text_content().strip().rstrip("*").strip()
CandidateName(child) == Strip(RStripTok(Strip(child.text), "*"))

\* "green check mark" in alt or "check" in alt, on the lower-cased alt
IsCheckAlt(alt) ==
    \/ ContainsRun(Lower(alt), <<"green", "check", "mark">>)
    \/ ContainsRun(Lower(alt), <<"check">>)

\* The test without its second half.
IsSurveyLink_TargetOnly(child) == child.target = "_blank"

\* target == "_blank" or "#Campaign_themes" in href
IsSurveyLink(child) ==
    child.target = "_blank" \/ child.href.frag = "#Campaign_themes"

\* href if href.startswith("http") else _BASE_URL + href
CandidateUrl(href) == [href EXCEPT !.abs = TRUE]

IsIncumbentTail(tail) == \E k \in 1..Len(tail) : tail[k] = "(i)"

\* The flag after a candidate has been appended.
PendingAfterEmit_Keep(pw) == pw

PendingAfterEmit(pw) == FALSE

InitCellIdle ==
    /\ td = <<>>
    /\ child_i = 0
    /\ pending_winner = FALSE
    /\ results = <<>>

InitAggIdle ==
    /\ df_county = [cols_missing |-> {}, rows |-> <<>>]
    /\ out = <<>>
    /\ agg_pc = "input"

InitColIdle ==
    /\ headers = <<>>
    /\ cols = <<>>
    /\ col_pc = "input"

InitNcIdle ==
    /\ nc_df = [contest_name_is_string_col |-> FALSE, rows |-> <<>>]
    /\ nc_out = <<>>
    /\ nc_pc = "input"

InitLocIdle ==
    /\ loc_page = <<>>
    /\ loc_call = <<>>
    /\ loc_out = <<>>
    /\ loc_pc = "input"

InitSrIdle ==
    /\ sr_page = <<>>
    /\ sr_out = <<>>
    /\ sr_pc = "input"

InitBdIdle ==
    /\ state_df = <<>>
    /\ bd_mode = "sequential"
    /\ bd_left = {}
    /\ bd_frames = <<>>
    /\ bd_log = <<>>
    /\ bd_pc = "input"
    /\ bd_result = <<>>

InitFetchIdle ==
    /\ fetch_env = <<>>
    /\ pw_calls = 0
    /\ fetch_log = <<>>
    /\ fetch_ret = [none |-> TRUE, page |-> [len |-> 0, tables |-> <<>>]]
    /\ year_rows = <<>>
    /\ fetch_pc = "input"

InitIterIdle ==
    /\ it_site = <<>>
    /\ it_page = 1
    /\ it_iter = 0
    /\ seen_keys = {}
    /\ it_yielded = <<>>
    /\ it_pc = "input"

InitJoinIdle ==
    /\ county_all = <<>>
    /\ state_all = <<>>
    /\ joined = <<>>
    /\ join_pc = "input"

InitRollIdle ==
    /\ roll_df = <<>>
    /\ county_out = <<>>
    /\ state_out = <<>>
    /\ roll_pc = "input"

InitSjIdle ==
    /\ sj_world = <<>>
    /\ district_rows = <<>>
    /\ sj_i = 0
    /\ all_results = <<>>
    /\ sj_out = <<>>
    /\ sj_pc = "input"

InitCliIdle ==
    /\ cli_args = <<>>
    /\ cli_year = 0
    /\ all_districts = <<>>
    /\ all_cands = <<>>
    /\ cli_files = {}
    /\ cli_exit = -1
    /\ cli_pc = "parse"

InitWonIdle ==
    /\ won_df = <<>>
    /\ won_out = <<>>
    /\ won_pc = "input"

InitPipeIdle ==
    /\ pipe_in = <<>>
    /\ supported = <<>>
    /\ skipped = <<>>
    /\ pipe_i = 0
    /\ pipe_frames = <<>>
    /\ pipe_failed = <<>>
    /\ downloaded = {}
    /\ pipe_out = <<>>
    /\ pipe_pc = "input"

InitParIdle ==
    /\ par_df = <<>>
    /\ futures = <<>>
    /\ par_collected = {}
    /\ par_frames = <<>>
    /\ par_log = {}
    /\ par_result = <<>>
    /\ par_pc = "input"

InitHdrIdle ==
    /\ hdr_df = <<>>
    /\ hdr_out = <<>>
    /\ hdr_pc = "input"

InitYrIdle ==
    /\ yr_table = <<>>
    /\ yr_rows = <<>>
    /\ yr_pc = "input"

InitVbIdle ==
    /\ vb_box = <<>>
    /\ vb_out = <<>>
    /\ vb_pc = "input"

InitInvIdle ==
    /\ inv_site = <<>>
    /\ inv_state = <<>>
    /\ inv_county = <<>>
    /\ inv_joined = <<>>
    /\ inv_pc = "input"

InitZipIdle ==
    /\ zip_members = <<>>
    /\ zip_ret = <<>>
    /\ zip_pc = "input"

InitFirstIdle ==
    InitCellIdle /\ InitAggIdle /\ InitColIdle /\ InitNcIdle
    /\ InitLocIdle /\ InitSrIdle /\ InitBdIdle

InitLaterIdle ==
    /\ InitFetchIdle
    /\ InitIterIdle
    /\ InitJoinIdle
    /\ InitRollIdle
    /\ InitSjIdle
    /\ InitCliIdle
    /\ InitWonIdle
    /\ InitPipeIdle
    /\ InitParIdle
    /\ InitHdrIdle
    /\ InitYrIdle
    /\ InitVbIdle
    /\ InitInvIdle
    /\ InitZipIdle

InitOthersIdleFetch ==
    /\ InitFirstIdle
    /\ InitIterIdle
    /\ InitJoinIdle
    /\ InitRollIdle
    /\ InitSjIdle
    /\ InitCliIdle
    /\ InitWonIdle
    /\ InitPipeIdle
    /\ InitParIdle
    /\ InitHdrIdle
    /\ InitYrIdle
    /\ InitVbIdle
    /\ InitInvIdle
    /\ InitZipIdle

InitOthersIdleIter ==
    /\ InitFirstIdle
    /\ InitFetchIdle
    /\ InitJoinIdle
    /\ InitRollIdle
    /\ InitSjIdle
    /\ InitCliIdle
    /\ InitWonIdle
    /\ InitPipeIdle
    /\ InitParIdle
    /\ InitHdrIdle
    /\ InitYrIdle
    /\ InitVbIdle
    /\ InitInvIdle
    /\ InitZipIdle

InitOthersIdleJoin ==
    /\ InitFirstIdle
    /\ InitFetchIdle
    /\ InitIterIdle
    /\ InitRollIdle
    /\ InitSjIdle
    /\ InitCliIdle
    /\ InitWonIdle
    /\ InitPipeIdle
    /\ InitParIdle
    /\ InitHdrIdle
    /\ InitYrIdle
    /\ InitVbIdle
    /\ InitInvIdle
    /\ InitZipIdle

InitOthersIdleRoll ==
    /\ InitFirstIdle
    /\ InitFetchIdle
    /\ InitIterIdle
    /\ InitJoinIdle
    /\ InitSjIdle
    /\ InitCliIdle
    /\ InitWonIdle
    /\ InitPipeIdle
    /\ InitParIdle
    /\ InitHdrIdle
    /\ InitYrIdle
    /\ InitVbIdle
    /\ InitInvIdle
    /\ InitZipIdle

InitOthersIdleSj ==
    /\ InitFirstIdle
    /\ InitFetchIdle
    /\ InitIterIdle
    /\ InitJoinIdle
    /\ InitRollIdle
    /\ InitCliIdle
    /\ InitWonIdle
    /\ InitPipeIdle
    /\ InitParIdle
    /\ InitHdrIdle
    /\ InitYrIdle
    /\ InitVbIdle
    /\ InitInvIdle
    /\ InitZipIdle

InitOthersIdleCli ==
    /\ InitFirstIdle
    /\ InitFetchIdle
    /\ InitIterIdle
    /\ InitJoinIdle
    /\ InitRollIdle
    /\ InitSjIdle
    /\ InitWonIdle
    /\ InitPipeIdle
    /\ InitParIdle
    /\ InitHdrIdle
    /\ InitYrIdle
    /\ InitVbIdle
    /\ InitInvIdle
    /\ InitZipIdle

InitOthersIdleWon ==
    /\ InitFirstIdle
    /\ InitFetchIdle
    /\ InitIterIdle
    /\ InitJoinIdle
    /\ InitRollIdle
    /\ InitSjIdle
    /\ InitCliIdle
    /\ InitPipeIdle
    /\ InitParIdle
    /\ InitHdrIdle
    /\ InitYrIdle
    /\ InitVbIdle
    /\ InitInvIdle
    /\ InitZipIdle

InitOthersIdlePipe ==
    /\ InitFirstIdle
    /\ InitFetchIdle
    /\ InitIterIdle
    /\ InitJoinIdle
    /\ InitRollIdle
    /\ InitSjIdle
    /\ InitCliIdle
    /\ InitWonIdle
    /\ InitParIdle
    /\ InitHdrIdle
    /\ InitYrIdle
    /\ InitVbIdle
    /\ InitInvIdle
    /\ InitZipIdle

InitOthersIdlePar ==
    /\ InitFirstIdle
    /\ InitFetchIdle
    /\ InitIterIdle
    /\ InitJoinIdle
    /\ InitRollIdle
    /\ InitSjIdle
    /\ InitCliIdle
    /\ InitWonIdle
    /\ InitPipeIdle
    /\ InitHdrIdle
    /\ InitYrIdle
    /\ InitVbIdle
    /\ InitInvIdle
    /\ InitZipIdle

InitOthersIdleHdr ==
    /\ InitFirstIdle
    /\ InitFetchIdle
    /\ InitIterIdle
    /\ InitJoinIdle
    /\ InitRollIdle
    /\ InitSjIdle
    /\ InitCliIdle
    /\ InitWonIdle
    /\ InitPipeIdle
    /\ InitParIdle
    /\ InitYrIdle
    /\ InitVbIdle
    /\ InitInvIdle
    /\ InitZipIdle

InitOthersIdleYr ==
    /\ InitFirstIdle
    /\ InitFetchIdle
    /\ InitIterIdle
    /\ InitJoinIdle
    /\ InitRollIdle
    /\ InitSjIdle
    /\ InitCliIdle
    /\ InitWonIdle
    /\ InitPipeIdle
    /\ InitParIdle
    /\ InitHdrIdle
    /\ InitVbIdle
    /\ InitInvIdle
    /\ InitZipIdle

InitOthersIdleVb ==
    /\ InitFirstIdle
    /\ InitFetchIdle
    /\ InitIterIdle
    /\ InitJoinIdle
    /\ InitRollIdle
    /\ InitSjIdle
    /\ InitCliIdle
    /\ InitWonIdle
    /\ InitPipeIdle
    /\ InitParIdle
    /\ InitHdrIdle
    /\ InitYrIdle
    /\ InitInvIdle
    /\ InitZipIdle

InitOthersIdleInv ==
    /\ InitFirstIdle
    /\ InitFetchIdle
    /\ InitIterIdle
    /\ InitJoinIdle
    /\ InitRollIdle
    /\ InitSjIdle
    /\ InitCliIdle
    /\ InitWonIdle
    /\ InitPipeIdle
    /\ InitParIdle
    /\ InitHdrIdle
    /\ InitYrIdle
    /\ InitVbIdle
    /\ InitZipIdle

InitOthersIdleZip ==
    /\ InitFirstIdle
    /\ InitFetchIdle
    /\ InitIterIdle
    /\ InitJoinIdle
    /\ InitRollIdle
    /\ InitSjIdle
    /\ InitCliIdle
    /\ InitWonIdle
    /\ InitPipeIdle
    /\ InitParIdle
    /\ InitHdrIdle
    /\ InitYrIdle
    /\ InitVbIdle
    /\ InitInvIdle

InitCell ==
    /\ td \in SeqsUpTo(NodePool, MaxCell)
    /\ child_i = 0
    /\ pending_winner = FALSE
    /\ results = <<>>
    /\ InitAggIdle
    /\ InitColIdle
    /\ InitNcIdle /\ InitLocIdle /\ InitSrIdle /\ InitBdIdle
    /\ InitLaterIdle

CellHasNext == child_i < Len(Children(td))
NextChild == Children(td)[child_i + 1]

\* tag == "img"
CellImg ==
    /\ CellHasNext
    /\ NextChild.tag = "img"
    /\ pending_winner' = IF IsCheckAlt(NextChild.alt) THEN TRUE ELSE pending_winner
    /\ child_i' = child_i + 1
    /\ UNCHANGED <<td, results>>
    /\ UNCHANGED notCellVars

\* tag == "a", skipped: a survey link or an empty name
CellLinkSkipped ==
    /\ CellHasNext
    /\ NextChild.tag = "a"
    /\ IsSurveyLink(NextChild) \/ CandidateName(NextChild) = <<>>
    /\ child_i' = child_i + 1
    /\ UNCHANGED <<td, pending_winner, results>>
    /\ UNCHANGED notCellVars

\* tag == "a", a candidate: append and consume the flag
CellLinkEmit ==
    /\ CellHasNext
    /\ NextChild.tag = "a"
    /\ ~IsSurveyLink(NextChild)
    /\ CandidateName(NextChild) # <<>>
    /\ results' = Append(results,
            [name |-> CandidateName(NextChild),
             candidate_url |-> CandidateUrl(NextChild.href),
             is_winner |-> pending_winner,
             is_incumbent |-> IsIncumbentTail(NextChild.tail)])
    /\ pending_winner' = PendingAfterEmit(pending_winner)
    /\ child_i' = child_i + 1
    /\ UNCHANGED td
    /\ UNCHANGED notCellVars

\* <br>, <p>, ...: nothing changes
CellOther ==
    /\ CellHasNext
    /\ NextChild.tag \notin {"img", "a"}
    /\ child_i' = child_i + 1
    /\ UNCHANGED <<td, pending_winner, results>>
    /\ UNCHANGED notCellVars

NextCell == CellImg \/ CellLinkSkipped \/ CellLinkEmit \/ CellOther

SpecCell == InitCell /\ [][NextCell]_vars

CellDone == child_i = Len(Children(td))

\* ---- C1 ----
IsCandidateLink(child) ==
    child.tag = "a" /\ ~IsSurveyLink(child) /\ CandidateName(child) # <<>>

\* The positions, among the first n children, of the candidate links.
RECURSIVE CandidatePositions(_, _)
CandidatePositions(ch, n) ==
    IF n = 0 THEN <<>>
    ELSE IF IsCandidateLink(ch[n]) THEN Append(CandidatePositions(ch, n - 1), n)
    ELSE CandidatePositions(ch, n - 1)

ScenarioCell == <<MarkerImg, JaneLink, IncText, JohnLink>>

\* C1: a candidate link is emitted with winner = TRUE iff a winner-marker
\* image occurred after the previously emitted candidate (or the start of the
\* cell) and before that link; the pending flag is false right after every
\* emitted candidate; and the cell [marker, Jane Doe, "(i)", John Smith] yields
\* exactly [(Jane Doe, winner, incumbent), (John Smith, not winner, not
\* incumbent)].
C1_WinnerIffMarkerSince ==
    LET ch  == Children(td)
        pos == CandidatePositions(ch, child_i)
    IN  /\ Len(results) = Len(pos)
        /\ \A k \in 1..Len(pos) :
              LET from == IF k = 1 THEN 0 ELSE pos[k - 1]
              IN  /\ results[k].name = CandidateName(ch[pos[k]])
                  /\ results[k].is_winner <=>
                        \E m \in (from + 1)..(pos[k] - 1) :
                            ch[m].tag = "img" /\ IsCheckAlt(ch[m].alt)
        /\ (child_i > 0 /\ IsCandidateLink(ch[child_i])) => ~pending_winner
        /\ (td = ScenarioCell /\ CellDone) =>
              /\ Len(results) = 2
              /\ results[1].name = <<"Jane Doe">>
              /\ results[1].is_winner /\ results[1].is_incumbent
              /\ results[2].name = <<"John Smith">>
              /\ ~results[2].is_winner /\ ~results[2].is_incumbent

C1_Witness ==
    /\ td = ScenarioCell
    /\ CellDone
    /\ Len(results) = 2
    /\ results[1].is_winner


----------------------------------------------------------------------------
(* North Carolina: the county -> state rollup, aggregate_county_to_state   *)

\* Most rows of a county-level input frame, and the largest vote count of a row.
MaxRows == 3
MaxVotes == 2

NAval == [na |-> TRUE, v |-> 0]
Num(n) == [na |-> FALSE, v |-> n]

AggCounties == {"ALAMANCE", "WAKE"}
\* A contest stands for one value of contest_cols (state, election_date,
\* contest_name, jurisdiction, office, district); groupby(dropna=False) keeps
\* the group whose key is missing.
AggContests == {"US SENATE", "NA"}
\* A choice stands for one value of (choice, choice_party).
AggChoices == {"ADAMS", "BAKER", "CLARK"}

AggKeys == [county : AggCounties, contest : AggContests, choice : AggChoices]
RawVotes == {Num(n) : n \in 0..MaxVotes} \cup {NAval}

group_cols == {"state", "election_date", "contest_name", "choice",
               "choice_party", "jurisdiction", "office", "district"}
vote_cols == {"election_day", "early_voting", "absentee_by_mail",
              "absentee_or_early", "provisional", "total_votes"}

\* Frames: which required columns are absent, and total_votes per
\* (county, contest, choice): the input is already county-level.
AggFrames ==
    [cols_missing : {{}, {"absentee_or_early"}},
     rows : UNION {[K -> RawVotes] :
                     K \in {S \in SUBSET AggKeys : Cardinality(S) <= MaxRows}}]

\* pd.to_numeric(errors="coerce") then fillna(0) then astype("Int64")
ToInt64(x) == IF x.na THEN Num(0) ELSE x

RECURSIVE SumOver(_, _)
SumOver(f, S) ==
    IF S = {} THEN 0
    ELSE LET k == CHOOSE k \in S : TRUE
         IN f[k] + SumOver(f, S \ {k})

\* round(x, 2) of n/d, in hundredths; numpy rounds half to even.
RoundHalfEven(n, d) ==
    LET q == n \div d
        r == n % d
    IN  IF 2 * r < d THEN q
        ELSE IF 2 * r > d THEN q + 1
        ELSE IF q % 2 = 0 THEN q ELSE q + 1

\* ((total_votes / contest_total) * 100).round(2), in hundredths of a percent;
\* 0 / 0 is the missing float.
VoteShare_ZeroFill(votes, contest_total) ==
    IF contest_total = 0 THEN Num(0)
    ELSE Num(RoundHalfEven(votes * 10000, contest_total))

VoteShare_NoRound(votes, contest_total) ==
    IF contest_total = 0 THEN NAval
    ELSE Num(RoundHalfEven(votes * 100, contest_total) * 100)

VoteShare(votes, contest_total) ==
    IF contest_total = 0 THEN NAval
    ELSE Num(RoundHalfEven(votes * 10000, contest_total))

\* "Loser", then Winner where is_top & n_top == 1, Tied Winner where
\* is_top & n_top > 1
ContestOutcome_NoTie(is_top, n_top) ==
    IF is_top THEN "Winner" ELSE "Loser"

\* a tie at the top leaves the contest without a leading row
ContestOutcome_NoLeaderOnTie(is_top, n_top) ==
    IF is_top /\ n_top = 1 THEN "Winner" ELSE "Loser"

ContestOutcome(is_top, n_top) ==
    IF is_top /\ n_top = 1 THEN "Winner"
    ELSE IF is_top /\ n_top > 1 THEN "Tied Winner"
    ELSE "Loser"

\* groupby(group_cols, dropna=False)[vote_cols].sum(), then the share and the
\* outcome per contest.
StateRollup(rows) ==
    LET work == [k \in DOMAIN rows |-> ToInt64(rows[k]).v]
        groups == {[contest |-> k.contest, choice |-> k.choice] : k \in DOMAIN rows}
        total == [g \in groups |->
                    SumOver(work, {k \in DOMAIN rows :
                                     k.contest = g.contest /\ k.choice = g.choice})]
        InContest(g) == {h \in groups : h.contest = g.contest}
        contest_total == [g \in groups |-> SumOver(total, InContest(g))]
        max_votes == [g \in groups |->
                        CHOOSE m \in {total[h] : h \in InContest(g)} :
                            \A h \in InContest(g) : total[h] <= m]
        is_top == [g \in groups |-> total[g] = max_votes[g]]
        n_top == [g \in groups |-> Cardinality({h \in InContest(g) : is_top[h]})]
    IN  [g \in groups |->
            [total_votes |-> total[g],
             vote_share |-> VoteShare(total[g], contest_total[g]),
             contest_outcome |-> ContestOutcome(is_top[g], n_top[g])]]

InitAgg ==
    /\ df_county \in AggFrames
    /\ out = <<>>
    /\ agg_pc = "input"
    /\ InitCellIdle
    /\ InitColIdle
    /\ InitNcIdle /\ InitLocIdle /\ InitSrIdle /\ InitBdIdle
    /\ InitLaterIdle

required == group_cols \cup vote_cols
\* missing = [c for c in required if c not in df_county.columns]
AggMissing(df) == {c \in required : c \in df.cols_missing}

\* missing required columns: raise ValueError before anything is computed
AggRaiseMissing ==
    /\ agg_pc = "input"
    /\ AggMissing(df_county) # {}
    /\ agg_pc' = "raised"
    /\ UNCHANGED <<df_county, out>>
    /\ UNCHANGED notAggVars

aggregate_county_to_state ==
    /\ agg_pc = "input"
    /\ AggMissing(df_county) = {}
    /\ out' = StateRollup(df_county.rows)
    /\ agg_pc' = "done"
    /\ UNCHANGED df_county
    /\ UNCHANGED notAggVars

NextAgg == AggRaiseMissing \/ aggregate_county_to_state

SpecAgg == InitAgg /\ [][NextAgg]_vars

AggDone == agg_pc = "done"
OutContests == {g.contest : g \in DOMAIN out}
OutChoices(c) == {g \in DOMAIN out : g.contest = c}
OutContestTotal(c) ==
    SumOver([g \in DOMAIN out |-> out[g].total_votes], OutChoices(c))
OutLeaders(c) ==
    {g \in OutChoices(c) :
        \A h \in OutChoices(c) : out[h].total_votes <= out[g].total_votes}

\* C2: in the state rollup, if two or more choices share a contest's maximum
\* vote total, every one of them is labelled "Tied Winner"; if a single choice
\* holds the maximum, exactly that choice is "Winner" and every other choice
\* of the contest is "Loser".
C2_TieHandling ==
    AggDone =>
        \A c \in OutContests :
            /\ Cardinality(OutLeaders(c)) >= 2 =>
                  \A g \in OutLeaders(c) : out[g].contest_outcome = "Tied Winner"
            /\ Cardinality(OutLeaders(c)) = 1 =>
                  \A g \in OutChoices(c) :
                      out[g].contest_outcome =
                          IF g \in OutLeaders(c) THEN "Winner" ELSE "Loser"

C2_Witness ==
    /\ AggDone
    /\ \E c \in OutContests :
          /\ Cardinality(OutLeaders(c)) >= 2
          /\ \A g \in OutLeaders(c) : out[g].contest_outcome = "Tied Winner"
    /\ \E c \in OutContests :
          /\ Cardinality(OutLeaders(c)) = 1
          /\ \A g \in OutLeaders(c) : out[g].contest_outcome = "Winner"

OutShareSum(c) ==
    SumOver([g \in DOMAIN out |-> out[g].vote_share.v], OutChoices(c))

Abs(x) == IF x < 0 THEN -x ELSE x

InputContestTotal(c) ==
    SumOver([k \in DOMAIN df_county.rows |->
                IF df_county.rows[k].na THEN 0 ELSE df_county.rows[k].v],
            {k \in DOMAIN df_county.rows : k.contest = c})

----------------------------------------------------------------------------
(* Ballotpedia: the district-table column resolver                         *)
(* SchoolBoardScraper._col_index and the header part of _parse_year_page   *)

\* Most cells of a header row.
MaxHeaders == 4

\* Python's None, among 0-based indices.
None == -1

HeaderPool ==
    {<<"District">>, <<"Primary">>, <<"PRIMARY">>, <<"Primary", "Runoff">>,
     <<"Primary", "Run-off">>, <<"General", "Election">>,
     <<"General", "Runoff">>, <<"Term", "Length">>}

\* The 0-based index of the first of the (1-based) positions in idxs, else None.
FirstIndex(idxs) ==
    IF idxs # {}
    THEN (CHOOSE i \in idxs : \A j \in idxs : i <= j) - 1
    ELSE None

\* _col_index(headers, *keywords): the first header containing any keyword,
\* case-insensitively.
ColIndex(hs, kws) ==
    FirstIndex({i \in 1..Len(hs) : \E kw \in kws : ContainsRun(Lower(hs[i]), kw)})

\* The naive resolution of "primary": the first header containing it.
PrimaryIndex_Naive(hs) == ColIndex(hs, {<<"primary">>})

\* next(i for i, h in enumerate(headers) if "primary" in h.lower()
\*      and "runoff" not in h.lower() and "run-off" not in h.lower())
PrimaryIndex(hs) ==
    FirstIndex({i \in 1..Len(hs) :
                  /\ ContainsRun(Lower(hs[i]), <<"primary">>)
                  /\ ~ContainsRun(Lower(hs[i]), <<"runoff">>)
                  /\ ~ContainsRun(Lower(hs[i]), <<"run-off">>)})

ResolveColumns(hs) ==
    [primary_runoff_idx |->
         ColIndex(hs, {<<"primary", "runoff">>, <<"primary", "run-off">>}),
     primary_idx |-> PrimaryIndex(hs),
     general_idx |-> ColIndex(hs, {<<"general", "election">>}),
     general_runoff_idx |-> ColIndex(hs, {<<"general", "runoff">>}),
     term_length_idx |-> ColIndex(hs, {<<"term", "length">>}),
     seats_up_idx |-> ColIndex(hs, {<<"seats", "up">>}),
     total_seats_idx |-> ColIndex(hs, {<<"total", "board">>}),
     enrollment_idx |-> ColIndex(hs, {<<"enrollment">>})]

InitCol ==
    /\ headers \in SeqsUpTo(HeaderPool, MaxHeaders)
    /\ cols = <<>>
    /\ col_pc = "input"
    /\ InitCellIdle
    /\ InitAggIdle
    /\ InitNcIdle /\ InitLocIdle /\ InitSrIdle /\ InitBdIdle
    /\ InitLaterIdle

ResolveHeaderRow ==
    /\ col_pc = "input"
    /\ cols' = ResolveColumns(headers)
    /\ col_pc' = "done"
    /\ UNCHANGED headers
    /\ UNCHANGED notColVars

NextCol == ResolveHeaderRow

SpecCol == InitCol /\ [][NextCol]_vars

IsPrimaryHeader(h) == Lower(h) = <<"primary">>
IsPrimaryRunoffHeader(h) ==
    Lower(h) \in {<<"primary", "runoff">>, <<"primary", "run-off">>}

\* C5: for a header row holding both a "Primary" column and a "Primary Runoff"
\* column, in any order, the primary field gets the index of a "Primary"
\* header and the primary-runoff field the index of a "Primary Runoff" header;
\* the two are never swapped and never the same index.
C5_PrimaryNeverRunoff ==
    (/\ col_pc = "done"
     /\ \E i \in 1..Len(headers) : IsPrimaryHeader(headers[i])
     /\ \E i \in 1..Len(headers) : IsPrimaryRunoffHeader(headers[i]))
    => /\ cols.primary_idx # None
       /\ cols.primary_runoff_idx # None
       /\ IsPrimaryHeader(headers[cols.primary_idx + 1])
       /\ IsPrimaryRunoffHeader(headers[cols.primary_runoff_idx + 1])
       /\ cols.primary_idx # cols.primary_runoff_idx

C5_Witness ==
    /\ col_pc = "done"
    /\ Len(headers) >= 3
    /\ IsPrimaryRunoffHeader(headers[1])
    /\ IsPrimaryHeader(headers[2])
    /\ cols.primary_idx = 1
    /\ cols.primary_runoff_idx = 0


----------------------------------------------------------------------------
(* North Carolina: the contest-name grammars of canonicalize.py            *)
(* A normalised name is its sequence of words (the name is upper-cased,    *)
(* trimmed and its whitespace collapsed before matching). Both patterns    *)
(* are anchored and every piece is separated by whitespace, so a match is  *)
(* a split of the words; re's backtracking takes the first split in the    *)
(* order of its choice points.                                             *)

\* str.upper() on the words used by the model.
UpperWord(w) ==
    CASE w = "wake" -> "WAKE"
      [] w = "county" -> "COUNTY"
      [] w = "sheriff" -> "SHERIFF"
      [] w = "Mayor" -> "MAYOR"
      [] w = "Raleigh" -> "RALEIGH"
      [] OTHER -> w

\* contest_name.upper().strip(), leading and trailing [,\s]+ removed, \s+
\* collapsed: the words, without the runs of blanks and the outer commas.
RECURSIVE LStripSet(_, _)
LStripSet(t, S) == IF t # <<>> /\ Head(t) \in S THEN LStripSet(Tail(t), S) ELSE t

RECURSIVE RStripSet(_, _)
RStripSet(t, S) ==
    IF t # <<>> /\ t[Len(t)] \in S THEN RStripSet(SubSeq(t, 1, Len(t) - 1), S)
    ELSE t

NormalizeName(raw) ==
    LET up == [k \in 1..Len(raw) |-> UpperWord(raw[k])]
        trimmed == RStripSet(LStripSet(up, {" ", ","}), {" ", ","})
    IN  SelectSeq(trimmed, LAMBDA w : w # " ")

\* Character classes, by word.
PartyToks == {"(REP)", "(DEM)"}
PunctToks == {",", "'", "/"}
DigitToks == {"1", "2", "3", "12", "024"}
LongDigitToks == {"2024"}
DigitLetterToks == {"27B"}
LetterToks == {"A", "B", "C", "D", "I", "L", "M", "V", "X"}
RomanToks == {"I", "II", "III", "IV", "V", "X", "C", "D", "L", "M"}
OrdinalToks == {"1ST", "2ND", "3RD", "4TH"}
SpelledOrdinalToks ==
    {"FIRST", "SECOND", "THIRD", "FOURTH", "FIFTH", "SIXTH", "SEVENTH",
     "EIGHTH", "NINTH", "TENTH", "ELEVENTH", "TWELFTH"}
DirectionToks == {"NORTH", "SOUTH", "EAST", "WEST"}
MunicipalToks == {"CITY", "TOWN", "VILLAGE"}

\* [A-Z0-9&\.\-]+ (and, for the first pattern's jurisdiction, the dashes)
IsWordTok(w) == w \notin PartyToks \cup PunctToks \cup {" "}
\* \d+
IsDigits(w) == w \in DigitToks \cup LongDigitToks
\* \d+ | [A-Z] | [IVXLCDM]+
IsWardId(w) == IsDigits(w) \/ w \in LetterToks \/ w \in RomanToks
\* \d{1,3}[A-Z]? | [IVXLCDM]+
IsDistId(w) == w \in DigitToks \cup DigitLetterToks \cup RomanToks

AllWords(t) == \A k \in 1..Len(t) : IsWordTok(t[k])

StartsWith(t, i, pat) ==
    /\ i + Len(pat) - 1 <= Len(t)
    /\ \A j \in 1..Len(pat) : t[i + j - 1] = pat[j]

\* AT[-\s]?LARGE
IsAtLarge(t) ==
    t \in {<<"AT-LARGE">>, <<"ATLARGE">>, <<"AT", "LARGE">>}

\* the seat label that may follow AT-LARGE
IsWardLabel(t) ==
    /\ Len(t) = 2
    /\ \/ t[1] \in OrdinalToks /\ t[2] = "WARD"
       \/ t[1] \in SpelledOrdinalToks /\ t[2] = "WARD"
       \/ t[1] = "WARD" /\ IsWardId(t[2])
       \/ t[1] \in DirectionToks /\ t[2] = "WARD"

\* (?P<district> ...) of _CONTEST_RE
IsDistrict1(t) ==
    \/ IsAtLarge(t)
    \/ \E k \in 1..2 :
          /\ k < Len(t)
          /\ IsAtLarge(SubSeq(t, 1, k))
          /\ IsWardLabel(SubSeq(t, k + 1, Len(t)))
    \/ Len(t) = 2 /\ t[1] = "DISTRICT" /\ (IsDigits(t[2]) \/ t[2] \in LetterToks)
    \/ IsWardLabel(t)
    \/ Len(t) = 2 /\ t[1] \in DirectionToks /\ t[2] = "END"
    \/ /\ Len(t) \in {2, 3}
       /\ t[Len(t)] = "DISTRICT"
       /\ AllWords(SubSeq(t, 1, Len(t) - 1))

\* (?P<office> ...) of _CONTEST_RE, its alternatives in order, the optional
\* parts greedy.
CouncilOf(x) ==
    << <<x, "COUNCIL", "MEMBERS">>, <<x, "COUNCIL", "MEMBER">>, <<x, "COUNCIL">> >>

Offices1 ==
    << <<"MAYOR">>,
       <<"COUNCIL", "MEMBERS">>, <<"COUNCIL", "MEMBER">>,
       <<"COUNCILMAN">>, <<"COUNCILMEN">>, <<"COUNCIL">> >>
    \o CouncilOf("CITY") \o CouncilOf("TOWN") \o CouncilOf("VILLAGE")
    \o << <<"CITY", "COUNCILMEN">>, <<"TOWN", "COUNCILMEN">>,
          <<"VILLAGE", "COUNCILMEN">>,
          <<"BOARD">>, <<"BOARD", "MEMBERS">>, <<"BOARD", "MEMBER">>,
          <<"BOARD", "OF", "DIRECTORS">>, <<"BOARD", "OF", "EDUCATION">>,
          <<"BOARD", "OF", "TRUSTEES">>, <<"BOARD", "OF", "ALDERMEN">>,
          <<"BOARD", "OF", "COMMISSIONERS">>,
          <<"COMMISSIONERS">>, <<"COMMISSIONER">>,
          <<"TRUSTEES">>, <<"TRUSTEE">>,
          <<"ALDERMAN">>, <<"ALDERMEN">>, <<"ALDERMANS">> >>

NoMatch == [matched |-> FALSE]

\* The words without the trailing party, (?:\s*\([A-Z]+\))?
WithoutParty(t) ==
    IF t # <<>> /\ t[Len(t)] \in PartyToks THEN SubSeq(t, 1, Len(t) - 1) ELSE t

\* _CONTEST_RE.match(s): the choice points are, in order, the municipal
\* prefix (taken first), the jurisdiction (lazy: shortest first), the extra
\* municipal word (taken first) and the office alternative.
Parses1(s) ==
    LET t == WithoutParty(s)
        n == Len(t)
    IN  {p \in [u : 0..1, jl : 1..n, m : 0..1, oi : 1..Len(Offices1)] :
            LET js == 2 * p.u + 1
                os == js + p.jl + p.m
                oe == os + Len(Offices1[p.oi]) - 1
            IN  /\ p.u = 1 => (n >= 2 /\ t[1] \in MunicipalToks /\ t[2] = "OF")
                /\ js + p.jl - 1 <= n
                /\ AllWords(SubSeq(t, js, js + p.jl - 1))
                /\ p.m = 1 => (js + p.jl <= n /\ t[js + p.jl] \in MunicipalToks)
                /\ StartsWith(t, os, Offices1[p.oi])
                /\ (oe = n \/ IsDistrict1(SubSeq(t, oe + 1, n)))}

Rank1(p) == (((1 - p.u) * 100 + p.jl) * 2 + (1 - p.m)) * 100 + p.oi

Match1(s) ==
    LET ps == Parses1(s)
    IN  IF ps = {} THEN NoMatch
        ELSE LET p == CHOOSE p \in ps : \A q \in ps : Rank1(p) <= Rank1(q)
                 t == WithoutParty(s)
                 js == 2 * p.u + 1
                 os == js + p.jl + p.m
                 oe == os + Len(Offices1[p.oi]) - 1
             IN  [matched |-> TRUE,
                  state_prefix |-> FALSE,
                  jurisdiction |-> SubSeq(t, js, js + p.jl - 1),
                  office |-> Offices1[p.oi],
                  district |-> SubSeq(t, oe + 1, Len(t))]


\* (?P<jurisdiction> ...) of _CONTEST_RE2: one or more words, then the
\* ending of alternative a (COUNTY with PUBLIC SCHOOLS optional, CITY
\* SCHOOLS, SANITARY DISTRICT, SOIL AND WATER CONSERVATION DISTRICT).
JurisdictionEnding(a, ps) ==
    CASE a = 1 /\ ps = 1 -> <<"COUNTY", "PUBLIC", "SCHOOLS">>
      [] a = 1 /\ ps = 0 -> <<"COUNTY">>
      [] a = 2 -> <<"CITY", "SCHOOLS">>
      [] a = 3 -> <<"SANITARY", "DISTRICT">>
      [] OTHER -> <<"SOIL", "AND", "WATER", "CONSERVATION", "DISTRICT">>

\* an office that allows an optional leading NC: with NC first (greedy)
WithNC(o) == << <<"NC">> \o o, o >>

\* (?P<office> ...) of _CONTEST_RE2, its alternatives in order.
Offices2 ==
    << <<"US", "HOUSE", "OF", "REPRESENTATIVES">>, <<"US", "SENATE">>,
       <<"US", "PRESIDENT">>, <<"PRESIDENTIAL", "PREFERENCE">> >>
    \o WithNC(<<"HOUSE", "OF", "REPRESENTATIVES">>)
    \o WithNC(<<"STATE", "SENATE">>)
    \o WithNC(<<"ATTORNEY", "GENERAL">>)
    \o WithNC(<<"AUDITOR">>)
    \o WithNC(<<"COMMISSIONER", "OF", "AGRICULTURE">>)
    \o WithNC(<<"COMMISSIONER", "OF", "LABOR">>)
    \o WithNC(<<"COMMISSIONER", "OF", "INSURANCE">>)
    \o WithNC(<<"GOVERNOR">>)
    \o WithNC(<<"LIEUTENANT", "GOVERNOR">>)
    \o WithNC(<<"SECRETARY", "OF", "STATE">>)
    \o WithNC(<<"TREASURER">>)
    \o WithNC(<<"SUPERINTENDENT", "OF", "PUBLIC", "INSTRUCTION">>)
    \o WithNC(<<"SUPREME", "COURT", "CHIEF", "JUSTICE">>)
    \o WithNC(<<"COURT", "OF", "APPEALS", "JUDGE">>)
    \o WithNC(<<"SUPERIOR", "COURT", "JUDGE">>)
    \o WithNC(<<"DISTRICT", "COURT", "JUDGE">>)
    \o WithNC(<<"SUPREME", "COURT", "ASSOCIATE", "JUSTICE">>)
    \o << <<"DISTRICT", "ATTORNEY">>, <<"SHERIFF">>,
          <<"CLERK", "OF", "SUPERIOR", "COURT">>, <<"REGISTER", "OF", "DEEDS">>,
          <<"BOARD", "OF", "COMMISSIONERS">>,
          <<"BOARD", "OF", "EDUCATION", "MEMBER">>,
          <<"BOARD", "OF", "EDUCATION">>, <<"SUPERVISOR">> >>

\* one qualifier of (?P<qualifiers> ...)
IsQualifier(t) ==
    \/ Len(t) = 2 /\ t[1] \in {"DIST", "DISTRICT"} /\ IsDistId(t[2])
    \/ Len(t) = 2 /\ t[1] = "SEAT" /\ t[2] \in DigitToks
    \/ IsAtLarge(t)
    \/ t \in {<<"COUNTY-WIDE">>, <<"COUNTYWIDE">>, <<"COUNTY", "WIDE">>}
    \/ Len(t) = 2 /\ t[1] = "AREA" /\ IsWardId(t[2])
    \/ t \in {<<"CHAIRMAN">>, <<"MEMBER">>}

\* zero or more qualifiers
RECURSIVE IsQualifiers(_)
IsQualifiers(t) ==
    \/ t = <<>>
    \/ \E k \in 1..2 :
          /\ k <= Len(t)
          /\ IsQualifier(SubSeq(t, 1, k))
          /\ IsQualifiers(SubSeq(t, k + 1, Len(t)))

\* _CONTEST_RE2.match(s): the choice points are, in order, the NC prefix
\* (taken first), the jurisdiction (taken first; its alternatives in order,
\* its words greedy, PUBLIC SCHOOLS taken first) and the office alternative.
Parses2(s) ==
    LET t == WithoutParty(s)
        n == Len(t)
    IN  {p \in [sp : 0..1, jp : 0..1, a : 1..4, w : 1..n, ps : 0..1,
                oi : 1..Len(Offices2)] :
            LET js == p.sp + 1
                ending == JurisdictionEnding(p.a, p.ps)
                os == IF p.jp = 1 THEN js + p.w + Len(ending) ELSE js
                oe == os + Len(Offices2[p.oi]) - 1
            IN  /\ p.sp = 1 => (n >= 1 /\ t[1] = "NC")
                /\ p.jp = 0 => (p.a = 1 /\ p.w = 1 /\ p.ps = 0)
                /\ p.ps = 1 => p.a = 1
                /\ p.jp = 1 =>
                      /\ js + p.w - 1 <= n
                      /\ AllWords(SubSeq(t, js, js + p.w - 1))
                      /\ StartsWith(t, js + p.w, ending)
                /\ StartsWith(t, os, Offices2[p.oi])
                /\ IsQualifiers(SubSeq(t, oe + 1, n))}

Rank2(p, n) ==
    LET jrank == IF p.jp = 0 THEN 9999
                 ELSE ((p.a - 1) * 100 + (n - p.w)) * 2 + (1 - p.ps)
    IN  ((1 - p.sp) * 10000 + jrank) * 100 + p.oi

Match2(s) ==
    LET ps == Parses2(s)
        t == WithoutParty(s)
        n == Len(t)
    IN  IF ps = {} THEN NoMatch
        ELSE LET p == CHOOSE p \in ps : \A q \in ps : Rank2(p, n) <= Rank2(q, n)
                 js == p.sp + 1
                 ending == JurisdictionEnding(p.a, p.ps)
                 os == IF p.jp = 1 THEN js + p.w + Len(ending) ELSE js
                 oe == os + Len(Offices2[p.oi]) - 1
             IN  [matched |-> TRUE,
                  state_prefix |-> p.sp = 1,
                  jurisdiction |-> IF p.jp = 1 THEN SubSeq(t, js, os - 1) ELSE <<>>,
                  office |-> Offices2[p.oi],
                  district |-> SubSeq(t, oe + 1, n)]

\* str.title() on the words used by the model.
TitleWord(w) ==
    CASE w = "WAKE" -> "Wake"
      [] w = "COUNTY" -> "County"
      [] w = "BOARD" -> "Board"
      [] w = "OF" -> "Of"
      [] w = "EDUCATION" -> "Education"
      [] w = "DISTRICT" -> "District"
      [] w = "CITY" -> "City"
      [] w = "RALEIGH" -> "Raleigh"
      [] w = "COUNCIL" -> "Council"
      [] w = "AT" -> "At"
      [] w = "LARGE" -> "Large"
      [] w = "AT-LARGE" -> "At-Large"
      [] w = "MAYOR" -> "Mayor"
      [] w = "SHERIFF" -> "Sheriff"
      [] w = "NC" -> "Nc"
      [] w = "US" -> "Us"
      [] w = "SENATE" -> "Senate"
      [] w = "GOVERNOR" -> "Governor"
      [] w = "MEMBER" -> "Member"
      [] w = "FOO" -> "Foo"
      [] w = "BAR" -> "Bar"
      [] w = "1ST" -> "1St"
      [] w = "WARD" -> "Ward"
      [] w = "TOWN" -> "Town"
      [] w = "PUBLIC" -> "Public"
      [] w = "SCHOOLS" -> "Schools"
      [] w = "STATE" -> "State"
      [] w = "SEAT" -> "Seat"
      [] w = "II" -> "Ii"
      [] w = "COUNTY-WIDE" -> "County-Wide"
      [] w = "WIDE" -> "Wide"
      [] w = "END" -> "End"
      [] w = "NORTH" -> "North"
      [] w = "FIRST" -> "First"
      [] OTHER -> w

Title(t) == [k \in 1..Len(t) |-> TitleWord(t[k])]

\* district_raw.replace("-", " "): a hyphenated word becomes its parts.
RECURSIVE DashToSpace(_)
DashToSpace(t) ==
    IF t = <<>> THEN <<>>
    ELSE (CASE Head(t) = "AT-LARGE" -> <<"AT", "LARGE">>
            [] Head(t) = "COUNTY-WIDE" -> <<"COUNTY", "WIDE">>
            [] OTHER -> <<Head(t)>>) \o DashToSpace(Tail(t))

Some(t) == [none |-> FALSE, v |-> t]
NoneStr == [none |-> TRUE, v |-> <<>>]
NoneTriple == [jurisdiction |-> NoneStr, office |-> NoneStr, district |-> NoneStr]

\* The groups of a match, made into (jurisdiction, office, district).
GroupsToTriple(g) ==
    LET us == g.office # <<>> /\ Head(g.office) = "US" /\ Len(g.office) > 1
        nc == g.office # <<>> /\ Head(g.office) = "NC" /\ Len(g.office) > 1
        office_raw == IF us \/ nc THEN Tail(g.office) ELSE g.office
    IN  [jurisdiction |->
             IF g.jurisdiction # <<>> THEN Some(Title(g.jurisdiction))
             ELSE IF us THEN Some(<<"US">>)
             ELSE IF g.state_prefix \/ nc THEN Some(<<"NC">>)
             ELSE NoneStr,
         office |-> IF office_raw # <<>> THEN Some(Title(office_raw)) ELSE NoneStr,
         district |->
             IF g.district # <<>> THEN Some(Title(DashToSpace(g.district)))
             ELSE NoneStr]

\* for rx in (_CONTEST_RE, _CONTEST_RE2): the first pattern that matches
FirstMatch_Re2First(s) ==
    IF Match2(s).matched THEN Match2(s) ELSE Match1(s)

FirstMatch(s) ==
    IF Match1(s).matched THEN Match1(s) ELSE Match2(s)

\* A contest_name cell: a string (its words) or not a string (NA).
StrName(t) == [is_str |-> TRUE, raw |-> t]
NotAString == [is_str |-> FALSE, raw |-> <<>>]

extract_jurisdiction_office_and_district(contest_name) ==
    IF ~contest_name.is_str THEN NoneTriple
    ELSE LET g == FirstMatch(NormalizeName(contest_name.raw))
         IN  IF g.matched THEN GroupsToTriple(g) ELSE NoneTriple


\* The contest names of the model, as the file gives them (raw words, with
\* blanks and commas where the file has them).
WakeLabel == <<"WAKE", "COUNTY", "BOARD", "OF", "EDUCATION", "DISTRICT", "3">>
RaleighLabel == <<"CITY", "OF", "RALEIGH", "CITY", "COUNCIL", "AT-LARGE">>
BothGrammarsLabel == <<"NC", "WAKE", "COUNTY", "BOARD", "OF", "EDUCATION">>

NcNamePool ==
    { WakeLabel, RaleighLabel, BothGrammarsLabel,
      <<"NC", "WAKE", "COUNTY", "SHERIFF">>,
      <<"WAKE", "COUNTY", "BOARD", "OF", "EDUCATION", "MEMBER", "DISTRICT", "3">>,
      <<"wake", "county", "sheriff">>,
      <<" ", ",", "Raleigh", " ", "Mayor", ",">>,
      <<"RALEIGH", "MAYOR">>,
      <<"US", "SENATE", "(REP)">>,
      <<"NC", "GOVERNOR">>,
      <<"FOO", "BAR">>,
      <<"MAYOR">>,
      <<" ">>,
      <<>> }

NcCells == {StrName(t) : t \in NcNamePool} \cup {NotAString}

\* the rows of the frame handed to _finalize_for_cross_year_concat
NcRowPool ==
    {[contest_name |-> c, choice_party |-> NoneStr] : c \in NcCells}
    \cup {[contest_name |-> StrName(<<"US", "SENATE", "(REP)">>),
           choice_party |-> Some(<<"DEM">>)]}

MaxNcRows == 2

InitNc ==
    /\ InitCellIdle /\ InitAggIdle /\ InitColIdle
    /\ InitLocIdle /\ InitSrIdle /\ InitBdIdle
    /\ InitLaterIdle
    /\ nc_df \in [contest_name_is_string_col : BOOLEAN,
                  rows : SeqsUpTo(NcRowPool, MaxNcRows)]
    /\ nc_out = <<>>
    /\ nc_pc = "input"

\* df[col].astype("string").str.strip().replace({"": pd.NA}) on a
\* contest_name cell
StringCol(c) ==
    IF ~c.is_str THEN NotAString
    ELSE LET t == RStripSet(LStripSet(c.raw, {" "}), {" "})
         IN  IF t = <<>> THEN NotAString ELSE StrName(t)

\* df["contest_name"].str.extract(r"\(([^)]+)\)$")
PartyInName(c) ==
    IF ~c.is_str \/ c.raw = <<>> THEN NoneStr
    ELSE CASE c.raw[Len(c.raw)] = "(REP)" -> Some(<<"REP">>)
           [] c.raw[Len(c.raw)] = "(DEM)" -> Some(<<"DEM">>)
           [] OTHER -> NoneStr

\* .apply(extract_jurisdiction_office_and_district) over the column
ApplyParser ==
    [c \in NcCells \cup {StringCol(x) : x \in NcCells} |->
        extract_jurisdiction_office_and_district(c)]

FinalizeRow(r, is_string_col) ==
    LET cell == IF is_string_col THEN StringCol(r.contest_name)
                ELSE r.contest_name
        p == ApplyParser[cell]
    IN  [contest_name |-> cell,
         jurisdiction |-> p.jurisdiction,
         office |-> p.office,
         district |-> p.district,
         choice_party |-> IF r.choice_party.none THEN PartyInName(cell)
                          ELSE r.choice_party]

_finalize_for_cross_year_concat ==
    /\ nc_pc = "input"
    /\ nc_out' = [i \in 1..Len(nc_df.rows) |->
                     FinalizeRow(nc_df.rows[i], nc_df.contest_name_is_string_col)]
    /\ nc_pc' = "done"
    /\ UNCHANGED nc_df
    /\ UNCHANGED notNcVars

NextNc == _finalize_for_cross_year_concat

SpecNC == InitNc /\ [][NextNc]_vars

NcDone == nc_pc = "done"

Triple(j, o, d) == [jurisdiction |-> j, office |-> o, district |-> d]
RowTriple(r) == Triple(r.jurisdiction, r.office, r.district)

\* what each pattern alone captures from the names of the pool
NcNormalized == {NormalizeName(t) : t \in NcNamePool}
Re1Groups == [t \in NcNormalized |-> Match1(t)]
Re2Groups == [t \in NcNormalized |-> Match2(t)]

\* C6 (as stated): the Wake label parses to ("Wake", "Board Of Education",
\* "District 3") and the Raleigh label to ("Raleigh", "City Council",
\* "At Large").
C6_KnownLabelsAsStated ==
    NcDone =>
        \A i \in 1..Len(nc_out) :
            /\ nc_out[i].contest_name = StrName(WakeLabel) =>
                   RowTriple(nc_out[i]) =
                       Triple(Some(<<"Wake">>),
                              Some(<<"Board", "Of", "Education">>),
                              Some(<<"District", "3">>))
            /\ nc_out[i].contest_name = StrName(RaleighLabel) =>
                   RowTriple(nc_out[i]) =
                       Triple(Some(<<"Raleigh">>),
                              Some(<<"City", "Council">>),
                              Some(<<"At", "Large">>))

\* C6 (amended): the Wake label parses to ("Wake County", "Board Of
\* Education", "District 3") and the Raleigh label to ("Raleigh", "Council",
\* "At Large"); the municipal pattern is tried first and the
\* county/state/federal pattern second, and the groups captured by the first
\* pattern that matches are the ones returned.
C6_KnownLabelsFirstGrammar ==
    NcDone =>
        \A i \in 1..Len(nc_out) :
            LET c == nc_out[i].contest_name
                s == NormalizeName(c.raw)
            IN  /\ c = StrName(WakeLabel) =>
                       RowTriple(nc_out[i]) =
                           Triple(Some(<<"Wake", "County">>),
                                  Some(<<"Board", "Of", "Education">>),
                                  Some(<<"District", "3">>))
                /\ c = StrName(RaleighLabel) =>
                       RowTriple(nc_out[i]) =
                           Triple(Some(<<"Raleigh">>),
                                  Some(<<"Council">>),
                                  Some(<<"At", "Large">>))
                /\ c.is_str /\ Re1Groups[s].matched =>
                       RowTriple(nc_out[i]) = GroupsToTriple(Re1Groups[s])
                /\ c.is_str /\ ~Re1Groups[s].matched /\ Re2Groups[s].matched =>
                       RowTriple(nc_out[i]) = GroupsToTriple(Re2Groups[s])

\* Both known labels were parsed, one of them matched by both patterns and
\* the other by the municipal pattern only.
C6_Witness ==
    /\ NcDone
    /\ \E i, k \in 1..Len(nc_out) :
          /\ nc_out[i].contest_name = StrName(WakeLabel)
          /\ nc_out[k].contest_name = StrName(RaleighLabel)
          /\ ~nc_out[i].office.none /\ ~nc_out[k].office.none
    /\ Re1Groups[WakeLabel].matched /\ Re2Groups[WakeLabel].matched
    /\ Re1Groups[RaleighLabel].matched /\ ~Re2Groups[RaleighLabel].matched

Unmatched(c) ==
    \/ ~c.is_str
    \/ LET s == NormalizeName(c.raw)
       IN  ~Re1Groups[s].matched /\ ~Re2Groups[s].matched

\* C7: a contest name that matches neither pattern, or is not a string,
\* gives (None, None, None); its row is kept in the normalized output with
\* office "unclassified": no row is removed and no output row has a missing
\* office.
C7_UnmatchedKeptUnclassified ==
    NcDone =>
        /\ Len(nc_out) = Len(nc_df.rows)
        /\ \A i \in 1..Len(nc_out) :
              /\ ~nc_out[i].office.none
              /\ Unmatched(nc_out[i].contest_name) =>
                     /\ nc_out[i].jurisdiction.none
                     /\ nc_out[i].district.none
                     /\ nc_out[i].office = Some(<<"unclassified">>)

\* C7, the part the code keeps: unmatched names give (None, None, None) and
\* their rows stay in the output, in place.
C7_UnmatchedKeptAsNone ==
    NcDone =>
        /\ Len(nc_out) = Len(nc_df.rows)
        /\ \A i \in 1..Len(nc_out) :
              Unmatched(nc_out[i].contest_name) =>
                  RowTriple(nc_out[i]) = NoneTriple

C7_Witness ==
    /\ NcDone
    /\ \E i, k \in 1..Len(nc_out) :
          /\ nc_out[i].contest_name = StrName(<<"FOO", "BAR">>)
          /\ nc_out[i].office.none
          /\ nc_out[k].contest_name = NotAString
          /\ nc_out[k].office.none

----------------------------------------------------------------------------
(* ElectionStats: the locality-detail parsers of                           *)
(* electionStats_county_search.py                                          *)
(* A detail page is its results table: the candidate names of the header   *)
(* row, in order, and the locality rows, each with its label and the       *)
(* texts of its data cells (the cells after the locality cell, the         *)
(* trailing summary cells dropped). A cell text is its characters.         *)

MaxCands == 2
MaxLocRows == 2

LocNames == {"ADAMS", "BAKER"}
LocCounties == {"Wake", "Totals", ""}
VoteTexts == { <<"7">>, <<"1", ",", "2">>, <<"-">> }

LocRowPool == [county : LocCounties, cells : SeqsUpTo(VoteTexts, MaxCands)]

NoTablePage == [has_table |-> FALSE, candidate_names |-> <<>>, rows |-> <<>>]

LocPages ==
    [has_table : {TRUE},
     candidate_names : SeqsUpTo(LocNames, MaxCands),
     rows : SeqsUpTo(LocRowPool, MaxLocRows)]
    \cup {NoTablePage}

\* candidate_id_map: None, or a dict from names to ids
NoMap == [given |-> FALSE, ids |-> <<>>]
IdMap(f) == [given |-> TRUE, ids |-> f]
LocMaps ==
    { NoMap,
      IdMap([n \in {} |-> 0]),
      IdMap([n \in {"ADAMS", "BAKER"} |-> IF n = "ADAMS" THEN 11 ELSE 12]),
      IdMap([n \in {"BAKER"} |-> 1]),
      IdMap([n \in {"ADAMS"} |-> 11]) }

LocCalls ==
    {[candidate_id_map |-> m, state_given |-> TRUE] : m \in LocMaps}
    \cup {[candidate_id_map |-> NoMap, state_given |-> FALSE]}

InitLoc ==
    /\ InitCellIdle /\ InitAggIdle /\ InitColIdle /\ InitNcIdle
    /\ InitSrIdle /\ InitBdIdle
    /\ InitLaterIdle
    /\ loc_page \in LocPages
    /\ loc_call \in LocCalls
    /\ loc_out = <<>>
    /\ loc_pc = "input"

IsDigitChar(ch) == ch \in {"0", "1", "2", "3", "4", "5", "6", "7", "8", "9"}

DigitValue(ch) ==
    CASE ch = "0" -> 0 [] ch = "1" -> 1 [] ch = "2" -> 2 [] ch = "3" -> 3
      [] ch = "4" -> 4 [] ch = "5" -> 5 [] ch = "6" -> 6 [] ch = "7" -> 7
      [] ch = "8" -> 8 [] ch = "9" -> 9

\* int(s) on a string of digits
RECURSIVE IntOf(_)
IntOf(t) ==
    IF t = <<>> THEN 0
    ELSE 10 * IntOf(SubSeq(t, 1, Len(t) - 1)) + DigitValue(t[Len(t)])

\* s.strip().replace(",", "")
CleanVoteText(t) ==
    SelectSeq(RStripSet(LStripSet(t, {" "}), {" "}), LAMBDA ch : ch # ",")

\* str.isdigit()
IsDigitText(t) == t # <<>> /\ \A k \in 1..Len(t) : IsDigitChar(t[k])

\* _parse_int: the integer, or None
_parse_int(t) ==
    IF IsDigitText(CleanVoteText(t)) THEN Num(IntOf(CleanVoteText(t))) ELSE NAval

\* int(vote_text) if vote_text.isdigit() else 0, of parse_county_votes_v2
VotesV2(t) ==
    IF IsDigitText(CleanVoteText(t)) THEN IntOf(CleanVoteText(t)) ELSE 0

\* if candidate_id_map is None: {name: i + 1 for i, name in enumerate(names)}
RECURSIVE PositionalMap(_, _)
PositionalMap(names, k) ==
    IF k = 0 THEN [n \in {} |-> 0]
    ELSE LET f == PositionalMap(names, k - 1)
         IN  [n \in DOMAIN f \cup {names[k]} |->
                 IF n = names[k] THEN k ELSE f[n]]

EffectiveMap(m, names) ==
    IF m.given THEN m.ids ELSE PositionalMap(names, Len(names))

RECURSIVE Concat(_)
Concat(ss) == IF ss = <<>> THEN <<>> ELSE Head(ss) \o Concat(Tail(ss))

CountyVotes(county, cand_id, cand_name, votes) ==
    [county_or_city |-> county, candidate_id |-> cand_id,
     candidate_name |-> cand_name, votes |-> votes]

\* _extract_candidate_vote_tds: the last candidate_count data cells, or None
\* (here <<>> with ok FALSE) when the row has fewer
VoteTds(cells, candidate_count) ==
    IF Len(cells) < candidate_count THEN [ok |-> FALSE, tds |-> <<>>]
    ELSE [ok |-> TRUE,
          tds |-> SubSeq(cells, Len(cells) - candidate_count + 1, Len(cells))]

\* the inner loop of parse_county_votes_from_detail_html over one row:
\* a cell without an integer is skipped, and so is a candidate whose name
\* candidate_id_map.get does not find
ClassicRowRecords(r, names, idmap) ==
    LET vt == VoteTds(r.cells, Len(names))
        kept == SelectSeq([k \in 1..Len(names) |-> k],
                          LAMBDA k : /\ ~_parse_int(vt.tds[k]).na
                                     /\ names[k] \in DOMAIN idmap)
    IN  IF r.county = "" \/ LowerWord(r.county) = "totals" THEN <<>>
        ELSE IF ~vt.ok THEN <<>>
        ELSE [j \in 1..Len(kept) |->
                 CountyVotes(r.county, idmap[names[kept[j]]], names[kept[j]],
                             _parse_int(vt.tds[kept[j]]).v)]

ClassicRaises(page, call) ==
    \/ ~page.has_table
    \/ page.candidate_names = <<>>
    \/ ~call.state_given

ParseClassicRaise ==
    /\ loc_pc = "input"
    /\ ClassicRaises(loc_page, loc_call)
    /\ loc_pc' = "raised"
    /\ UNCHANGED <<loc_page, loc_call, loc_out>>
    /\ UNCHANGED notLocVars

parse_county_votes_from_detail_html ==
    /\ loc_pc = "input"
    /\ ~ClassicRaises(loc_page, loc_call)
    /\ LET names == loc_page.candidate_names
           idmap == EffectiveMap(loc_call.candidate_id_map, names)
       IN  loc_out' = Concat([i \in 1..Len(loc_page.rows) |->
                                 ClassicRowRecords(loc_page.rows[i], names, idmap)])
    /\ loc_pc' = "classic_done"
    /\ UNCHANGED <<loc_page, loc_call>>
    /\ UNCHANGED notLocVars

LEADING_IGNORE_HEADERS ==
    {"County/City", "City/Town", "County", "Ward", "Pct", "Precinct"}

Min(a, b) == IF a < b THEN a ELSE b

\* candidate_id_map.get(candidate_name, i + 1), i counted from 0
CandidateIdV2(idmap, name, k) ==
    IF name \in DOMAIN idmap THEN idmap[name] ELSE k

\* the inner loop of parse_county_votes_v2 over one row: cells are taken
\* from the first one on, a cell without an integer counts 0 votes
V2RowRecords(r, names, idmap) ==
    IF Len(r.cells) < 1 THEN <<>>
    ELSE IF r.county = "" \/ r.county \in LEADING_IGNORE_HEADERS THEN <<>>
    ELSE [k \in 1..Min(Len(names), Len(r.cells)) |->
             CountyVotes(r.county, CandidateIdV2(idmap, names[k], k), names[k],
                         VotesV2(r.cells[k]))]

V2Raises(page) ==
    \/ ~page.has_table
    \/ page.candidate_names = <<>>

ParseV2Raise ==
    /\ loc_pc = "input"
    /\ loc_call.state_given
    /\ V2Raises(loc_page)
    /\ loc_pc' = "raised"
    /\ UNCHANGED <<loc_page, loc_call, loc_out>>
    /\ UNCHANGED notLocVars

parse_county_votes_v2 ==
    /\ loc_pc = "input"
    /\ loc_call.state_given
    /\ ~V2Raises(loc_page)
    /\ LET names == loc_page.candidate_names
           idmap == EffectiveMap(loc_call.candidate_id_map, names)
       IN  loc_out' = Concat([i \in 1..Len(loc_page.rows) |->
                                 V2RowRecords(loc_page.rows[i], names, idmap)])
    /\ loc_pc' = "v2_done"
    /\ UNCHANGED <<loc_page, loc_call>>
    /\ UNCHANGED notLocVars

NextLoc ==
    \/ ParseClassicRaise
    \/ parse_county_votes_from_detail_html
    \/ ParseV2Raise
    \/ parse_county_votes_v2

SpecLoc == InitLoc /\ [][NextLoc]_vars

LocDone == loc_pc \in {"classic_done", "v2_done"}

\* C8: with a candidate_id map given, a (locality, candidate) cell whose
\* candidate name is absent from the map produces no output row, in the
\* classic parser and in the v2 parser: every output row's name is in the
\* map and carries the map's id.
C8_AbsentNameDropped ==
    (LocDone /\ loc_call.candidate_id_map.given) =>
        \A i \in 1..Len(loc_out) :
            /\ loc_out[i].candidate_name \in DOMAIN loc_call.candidate_id_map.ids
            /\ loc_out[i].candidate_id =
                   loc_call.candidate_id_map.ids[loc_out[i].candidate_name]

\* C8, the classic parser alone: absent names give no row.
C8_ClassicDropsAbsentName ==
    (loc_pc = "classic_done" /\ loc_call.candidate_id_map.given) =>
        \A i \in 1..Len(loc_out) :
            /\ loc_out[i].candidate_name \in DOMAIN loc_call.candidate_id_map.ids
            /\ loc_out[i].candidate_id =
                   loc_call.candidate_id_map.ids[loc_out[i].candidate_name]

\* The v2 parser kept a row for a name the map does not have, under the
\* column's position, which is also the id the map gives another candidate
\* of the same row.
C8_V2SubstituteId ==
    /\ loc_pc = "v2_done"
    /\ loc_call.candidate_id_map.given
    /\ \E i, k \in 1..Len(loc_out) :
          /\ loc_out[i].candidate_name \notin DOMAIN loc_call.candidate_id_map.ids
          /\ loc_out[k].candidate_name \in DOMAIN loc_call.candidate_id_map.ids
          /\ loc_out[i].candidate_id = loc_out[k].candidate_id
          /\ loc_out[i].county_or_city = loc_out[k].county_or_city

----------------------------------------------------------------------------
(* ElectionStats: parse_search_results of electionStats_search.py          *)
(* A search-result row (a race) of a classic state carries a candidates    *)
(* cell with a nested table of candidate rows; a row of a v2 state carries *)
(* a results summary text. A candidate row is its class tokens, the text   *)
(* of its name link ("" when there is none), the text of its party div     *)
(* and the texts of its cells (the candidate cell first).                  *)

MaxCandRows == 3

CandTr(cls, name, party, cells) ==
    [cls |-> cls, name |-> name, party |-> party, cells |-> cells]

AdamsTr == CandTr({"is_winner"}, "ADAMS", "Democratic",
                  << <<"A">>, <<"1", ",", "2", "3", "4">>, <<"6", "0", "%">> >>)
BakerTr == CandTr({}, "BAKER", "(Write-In)",
                  << <<"B">>, <<"7">>, <<"4", "0", "%">> >>)
ClarkTr == CandTr({}, "CLARK", "",
                  << <<"C">>, <<"9">>, <<"5", "0", ".", "5", "%">> >>)
TotalTr == CandTr({"n_total_votes"}, "", "",
                  << <<"T">>, <<"1", "6">> >>)
MoreInfoTr == CandTr({"more_info"}, "DAVIS", "", << <<"D">>, <<"3">> >>)
NoNameTr == CandTr({}, "", "", << <<"-">>, <<"7">> >>)
NoVotesTr == CandTr({}, "EVANS", "", << <<"E">>, <<"-">>, <<>> >>)
OneCellTr == CandTr({}, "FELL", "", << <<"F">> >>)

CandRowPool ==
    {AdamsTr, BakerTr, ClarkTr, TotalTr, MoreInfoTr, NoNameTr, NoVotesTr, OneCellTr}

\* "NAME won the race (NN%) against NAME and NAME."
WonText(winner, pct, losers) ==
    [kind |-> "won", winner |-> winner, pct |-> pct, losers |-> losers,
     pairs |-> <<>>]
\* "NAME (NN%) NAME (NN%)"
PairsText(pairs) ==
    [kind |-> "pairs", winner |-> "", pct |-> <<>>, losers |-> <<>>,
     pairs |-> pairs]
OtherText ==
    [kind |-> "other", winner |-> "", pct |-> <<>>, losers |-> <<>>,
     pairs |-> <<>>]

\* a search-result row: what parse_row makes of it (None when ok is FALSE)
ClassicRace(ok, id, stage, has_table, trs) ==
    [ok |-> ok, election_id |-> id, stage |-> stage,
     has_table |-> has_table, trs |-> trs, results_text |-> OtherText]

V2Race(ok, id, text) ==
    [ok |-> ok, election_id |-> id, stage |-> "General",
     has_table |-> FALSE, trs |-> <<>>, results_text |-> text]

FirstRaces ==
    {ClassicRace(TRUE, 101, "General", TRUE, t) :
        t \in SeqsUpTo(CandRowPool, MaxCandRows)}

OtherRaces ==
    { ClassicRace(FALSE, 102, "General", TRUE, <<BakerTr>>),
      ClassicRace(TRUE, 102, "General", FALSE, <<>>),
      ClassicRace(TRUE, 102, "Democratic Primary", TRUE, <<BakerTr, TotalTr, ClarkTr>>),
      ClassicRace(TRUE, 101, "General", TRUE, <<AdamsTr>>) }

V2Races ==
    { V2Race(TRUE, 201, WonText("ADAMS", <<"5", "1">>, <<"BAKER">>)),
      V2Race(TRUE, 202, WonText("ADAMS", <<"5", "2">>, <<"BAKER", "", "CLARK">>)),
      V2Race(TRUE, 203, PairsText(<< [name |-> "ADAMS", pct |-> <<"6", "0">>],
                                     [name |-> "BAKER", pct |-> <<"4", "0">>] >>)),
      V2Race(TRUE, 204, OtherText),
      V2Race(FALSE, 205, WonText("ADAMS", <<"5", "1">>, <<"BAKER">>)) }

SrPages ==
    {[scraper_type |-> "classic", trs |-> <<r>>] : r \in FirstRaces}
    \cup {[scraper_type |-> "classic", trs |-> <<r, q>>] :
             r \in FirstRaces, q \in OtherRaces}
    \cup {[scraper_type |-> "classic", trs |-> <<q, r>>] :
             r \in FirstRaces, q \in OtherRaces}
    \cup {[scraper_type |-> "v2", trs |-> <<a>>] : a \in V2Races}
    \cup {[scraper_type |-> "v2", trs |-> <<a, b>>] : a \in V2Races, b \in V2Races}

InitSr ==
    /\ InitCellIdle /\ InitAggIdle /\ InitColIdle /\ InitNcIdle
    /\ InitLocIdle /\ InitBdIdle
    /\ InitLaterIdle
    /\ sr_page \in SrPages
    /\ sr_out = <<>>
    /\ sr_pc = "input"

\* _is_special_candidate_row
SpecialClasses ==
    {"more_info", "n_total_votes", "n_all_other_votes", "and-n-more",
     "total-votes-cast", "non_candidate"}

_is_special_candidate_row(tr) == tr.cls \cap SpecialClasses # {}

\* _extract_vote_count: cells[1] of the row's th|td cells, through _parse_int
_extract_vote_count(tr) ==
    IF Len(tr.cells) < 2 THEN NAval ELSE _parse_int(tr.cells[2])

\* _extract_vote_percentage: cells[2], or None (here <<>>) when empty or absent
_extract_vote_percentage(tr) ==
    IF Len(tr.cells) < 3 THEN <<>> ELSE RStripSet(LStripSet(tr.cells[3], {" "}), {" "})

\* _parse_percentage: float(p.replace("%", "").strip()), or None. The float
\* is kept as its integer part and whether its fraction is above zero.
NoFloat == [none |-> TRUE, int |-> 0, frac |-> FALSE]

_parse_percentage(p) ==
    LET t == RStripSet(LStripSet(SelectSeq(p, LAMBDA ch : ch # "%"), {" "}), {" "})
        dots == {k \in 1..Len(t) : t[k] = "."}
    IN  IF t = <<>> THEN NoFloat
        ELSE IF dots = {} THEN
            IF IsDigitText(t) THEN [none |-> FALSE, int |-> IntOf(t), frac |-> FALSE]
            ELSE NoFloat
        ELSE IF Cardinality(dots) > 1 THEN NoFloat
        ELSE LET d == CHOOSE k \in dots : TRUE
                 ip == SubSeq(t, 1, d - 1)
                 fp == SubSeq(t, d + 1, Len(t))
             IN  IF /\ ip \o fp # <<>>
                    /\ \A k \in 1..Len(ip \o fp) : IsDigitChar((ip \o fp)[k])
                 THEN [none |-> FALSE, int |-> IntOf(ip),
                       frac |-> \E k \in 1..Len(fp) : fp[k] # "0"]
                 ELSE NoFloat

Over50(f) == ~f.none /\ (f.int > 50 \/ (f.int = 50 /\ f.frac))

\* _extract_contest_outcome
_extract_contest_outcome(tr) ==
    IF "is_winner" \in tr.cls THEN "Winner" ELSE "Loser"

CandidateRecord(name, party, votes, pct, outcome) ==
    [ok |-> TRUE, candidate_name |-> name, party |-> party,
     total_vote_count |-> votes, vote_percentage |-> pct,
     contest_outcome |-> outcome]

NoRecord ==
    [ok |-> FALSE, candidate_name |-> "", party |-> "", total_vote_count |-> 0,
     vote_percentage |-> <<>>, contest_outcome |-> ""]

\* _extract_candidate_record: None for a summary row, a row without a name
\* and a row without a vote count
_extract_candidate_record(tr) ==
    IF _is_special_candidate_row(tr) THEN NoRecord
    ELSE IF tr.name = "" THEN NoRecord
    ELSE IF _extract_vote_count(tr).na THEN NoRecord
    ELSE CandidateRecord(
             tr.name, tr.party, _extract_vote_count(tr).v,
             _extract_vote_percentage(tr),
             IF Over50(_parse_percentage(_extract_vote_percentage(tr)))
             THEN "Winner" ELSE _extract_contest_outcome(tr))

\* _extract_candidates_table: the records of the rows that give one, in order
_extract_candidates_table(race) ==
    IF ~race.has_table THEN <<>>
    ELSE SelectSeq([k \in 1..Len(race.trs) |-> _extract_candidate_record(race.trs[k])],
                   LAMBDA rec : rec.ok)

\* _parse_v2_results_text
_parse_v2_results_text(text) ==
    CASE text.kind = "won" ->
            <<CandidateRecord(text.winner, "", 0, text.pct \o <<"%">>, "Winner")>>
            \o [k \in 1..Len(SelectSeq(text.losers, LAMBDA n : n # "")) |->
                   CandidateRecord(SelectSeq(text.losers, LAMBDA n : n # "")[k],
                                   "", 0, <<>>, "Loser")]
      [] text.kind = "pairs" ->
            [k \in 1..Len(text.pairs) |->
                CandidateRecord(text.pairs[k].name, "", 0,
                                text.pairs[k].pct \o <<"%">>,
                                IF IntOf(text.pairs[k].pct) > 50
                                THEN "Winner" ELSE "Loser")]
      [] OTHER -> <<>>

\* _infer_party_from_stage, on the stages of the model
_infer_party_from_stage(stage) ==
    CASE stage = "Democratic Primary" -> "Democratic"
      [] stage = "Republican Primary" -> "Republican"
      [] stage = "Libertarian Primary" -> "Libertarian"
      [] OTHER -> ""

\* _is_write_in_party, on the party texts of the model
_is_write_in_party(party) == party \in {"(Write-In)", "Write-In", "write in"}

_normalize_party(party, stage) ==
    IF /\ _infer_party_from_stage(stage) # ""
       /\ (party = "" \/ _is_write_in_party(party))
    THEN _infer_party_from_stage(stage)
    ELSE party

\* enumerate(candidate_rows, start=1): the id of the j-th record of a race
CandidateId_FromZero(j) == j - 1

CandidateId(j) == j

\* The record appended for the j-th candidate record of the search-result
\* row at position k; search_row keeps k, the row the record came from.
ElectionSearchRow(race, k, j, rec) ==
    [search_row |-> k,
     election_id |-> race.election_id,
     stage |-> race.stage,
     candidate_id |-> CandidateId(j),
     candidate |-> rec.candidate_name,
     party |-> _normalize_party(rec.party, race.stage),
     total_vote_count |-> rec.total_vote_count,
     vote_percentage |-> rec.vote_percentage,
     contest_outcome |-> rec.contest_outcome]

CandidateRows(scraper_type, race) ==
    IF scraper_type = "v2" THEN _parse_v2_results_text(race.results_text)
    ELSE _extract_candidates_table(race)

RaceRecords(scraper_type, race, k) ==
    IF ~race.ok THEN <<>>
    ELSE LET candidate_rows == CandidateRows(scraper_type, race)
         IN  [j \in 1..Len(candidate_rows) |->
                 ElectionSearchRow(race, k, j, candidate_rows[j])]

parse_search_results ==
    /\ sr_pc = "input"
    /\ sr_out' = Concat([k \in 1..Len(sr_page.trs) |->
                            RaceRecords(sr_page.scraper_type, sr_page.trs[k], k)])
    /\ sr_pc' = "done"
    /\ UNCHANGED sr_page
    /\ UNCHANGED notSrVars

NextSr == parse_search_results

SpecSr == InitSr /\ [][NextSr]_vars

SrDone == sr_pc = "done"

\* the records of the output that came from the search-result row k
RecordsOfRace(k) == SelectSeq(sr_out, LAMBDA rec : rec.search_row = k)

\* a candidate row that is no summary row and has a name and a vote count
HasNameAndVotes(tr) ==
    /\ tr.cls \cap SpecialClasses = {}
    /\ tr.name # ""
    /\ Len(tr.cells) >= 2
    /\ IsDigitText(SelectSeq(tr.cells[2], LAMBDA ch : ch \notin {",", " "}))

NamesInOrder(trs) ==
    LET kept == SelectSeq(trs, HasNameAndVotes)
    IN  [j \in 1..Len(kept) |-> kept[j].name]

\* C9: for every race (search-result row) the emitted records carry
\* candidate_id 1, 2, ..., n with no gap and no repeat, in the order the
\* candidates were extracted; the skipped candidate rows (summary rows, rows
\* without a name or without a vote count) consume no id.
C9_CandidateIdsOneToN ==
    SrDone =>
        /\ sr_out = Concat([k \in 1..Len(sr_page.trs) |-> RecordsOfRace(k)])
        /\ \A k \in 1..Len(sr_page.trs) :
              LET block == RecordsOfRace(k)
                  race == sr_page.trs[k]
              IN  /\ \A j \in 1..Len(block) : block[j].candidate_id = j
                  /\ (sr_page.scraper_type = "classic" /\ race.ok /\ race.has_table) =>
                        [j \in 1..Len(block) |-> block[j].candidate] =
                            NamesInOrder(race.trs)

\* A race whose table has a skipped row between two candidates gave the ids
\* 1 and 2, and the next race of the page starts at 1 again.
C9_Witness ==
    /\ SrDone
    /\ sr_page.scraper_type = "classic"
    /\ Len(sr_page.trs) = 2
    /\ \E i \in 1..Len(sr_page.trs[1].trs) :
          /\ i > 1 /\ i < Len(sr_page.trs[1].trs)
          /\ ~HasNameAndVotes(sr_page.trs[1].trs[i])
          /\ HasNameAndVotes(sr_page.trs[1].trs[i - 1])
          /\ HasNameAndVotes(sr_page.trs[1].trs[i + 1])
    /\ Len(RecordsOfRace(1)) = 2
    /\ RecordsOfRace(1)[2].candidate_id = 2
    /\ Len(RecordsOfRace(2)) >= 1
    /\ RecordsOfRace(2)[1].candidate_id = 1

----------------------------------------------------------------------------
(* ElectionStats: build_county_dataframe and                               *)
(* build_county_dataframe_parallel of electionStats_county_search.py       *)
(* A row of state_df has a detail URL (blank or not); the model keeps with *)
(* it what client.get_html does for that URL: return a page, raise for a   *)
(* 404 status, or raise for a timeout. election_id is the row's number.    *)

MaxJobs == 3

WakePage ==
    [has_table |-> TRUE, candidate_names |-> <<"ADAMS", "BAKER">>,
     rows |-> << [county |-> "Wake", cells |-> << <<"7">>, <<"1", ",", "2">> >>] >>]

TotalsOnlyPage ==
    [has_table |-> TRUE, candidate_names |-> <<"ADAMS", "BAKER">>,
     rows |-> << [county |-> "Totals", cells |-> << <<"7">>, <<"7">> >>] >>]

DetailRow(blank, fetch, page) == [url_blank |-> blank, fetch |-> fetch, page |-> page]

StateDfRowPool ==
    { DetailRow(FALSE, "ok", WakePage),
      DetailRow(FALSE, "ok", TotalsOnlyPage),
      DetailRow(FALSE, "ok", NoTablePage),
      DetailRow(FALSE, "404", NoTablePage),
      DetailRow(FALSE, "timeout", NoTablePage),
      DetailRow(TRUE, "ok", NoTablePage) }

StateDfs ==
    [has_state : BOOLEAN,
     candidate_id_map : {NoMap, IdMap([n \in {"ADAMS"} |-> 11])},
     rows : SeqsUpTo(StateDfRowPool, MaxJobs)]

InitBd ==
    /\ InitCellIdle /\ InitAggIdle /\ InitColIdle /\ InitNcIdle
    /\ InitLocIdle /\ InitSrIdle
    /\ InitLaterIdle
    /\ state_df \in StateDfs
    /\ bd_mode \in {"sequential", "parallel"}
    /\ bd_left = {}
    /\ bd_frames = <<>>
    /\ bd_log = <<>>
    /\ bd_pc = "input"
    /\ bd_result = <<>>

\* jobs: the rows whose detail_url is not blank
Jobs(df) == {i \in 1..Len(df.rows) : ~df.rows[i].url_blank}

\* the arguments parse_county_votes_from_detail_html gets from each builder:
\* the sequential one passes no candidate_id_map
JobCall(df, mode) ==
    [candidate_id_map |-> IF mode = "parallel" THEN df.candidate_id_map ELSE NoMap,
     state_given |-> df.has_state]

\* client.get_html(url) raises (raise_for_status, timeout), or the parser does
JobFails(df, mode, i) ==
    \/ df.rows[i].fetch # "ok"
    \/ ClassicRaises(df.rows[i].page, JobCall(df, mode))

ErrorOf(df, i) ==
    IF df.rows[i].fetch = "404" THEN "HTTPError"
    ELSE IF df.rows[i].fetch = "timeout" THEN "Timeout"
    ELSE "ValueError"

\* df_one: the frame parse_county_votes_from_detail_html returns for job i
JobFrame(df, mode, i) ==
    LET page == df.rows[i].page
        idmap == EffectiveMap(JobCall(df, mode).candidate_id_map, page.candidate_names)
        recs == Concat([k \in 1..Len(page.rows) |->
                           ClassicRowRecords(page.rows[k], page.candidate_names, idmap)])
    IN  [k \in 1..Len(recs) |->
            [election_id |-> i,
             county_or_city |-> recs[k].county_or_city,
             candidate_id |-> recs[k].candidate_id,
             candidate_name |-> recs[k].candidate_name,
             votes |-> recs[k].votes]]

ErrorMessage(df, mode, i) ==
    [level |-> "ERROR", election_id |-> i, error |-> ErrorOf(df, i)]

\* frames.append(df_one) only for a frame that is not empty
Collected(frames, df_one) ==
    IF df_one # <<>> THEN Append(frames, df_one) ELSE frames

\* build_county_dataframe is entered: the jobs are listed; without jobs it
\* returns an empty frame at once.
build_county_dataframe ==
    /\ bd_pc = "input"
    /\ bd_mode = "sequential"
    /\ bd_left' = Jobs(state_df)
    /\ bd_pc' = IF Jobs(state_df) = {} THEN "done" ELSE "running"
    /\ UNCHANGED <<state_df, bd_mode, bd_frames, bd_log, bd_result>>
    /\ UNCHANGED notBdVars

\* build_county_dataframe_parallel is entered: the same, and every job is
\* submitted to the pool.
build_county_dataframe_parallel ==
    /\ bd_pc = "input"
    /\ bd_mode = "parallel"
    /\ bd_left' = Jobs(state_df)
    /\ bd_pc' = IF Jobs(state_df) = {} THEN "done" ELSE "running"
    /\ UNCHANGED <<state_df, bd_mode, bd_frames, bd_log, bd_result>>
    /\ UNCHANGED notBdVars

\* the job the sequential loop is at: the first one left
NextJob == CHOOSE i \in bd_left : \A k \in bd_left : i <= k

\* one turn of the sequential loop whose fetch and parse succeed
SeqJobParsed ==
    /\ bd_pc = "running" /\ bd_mode = "sequential"
    /\ bd_left # {}
    /\ ~JobFails(state_df, bd_mode, NextJob)
    /\ bd_frames' = Collected(bd_frames, JobFrame(state_df, bd_mode, NextJob))
    /\ bd_left' = bd_left \ {NextJob}
    /\ UNCHANGED <<state_df, bd_mode, bd_log, bd_pc, bd_result>>
    /\ UNCHANGED notBdVars

\* one turn of the sequential loop that ends in its except clause
SeqJobFailed ==
    /\ bd_pc = "running" /\ bd_mode = "sequential"
    /\ bd_left # {}
    /\ JobFails(state_df, bd_mode, NextJob)
    /\ bd_log' = Append(bd_log, ErrorMessage(state_df, bd_mode, NextJob))
    /\ bd_left' = bd_left \ {NextJob}
    /\ UNCHANGED <<state_df, bd_mode, bd_frames, bd_pc, bd_result>>
    /\ UNCHANGED notBdVars

\* a worker returns a frame and as_completed hands it to the caller; the
\* futures complete in any order
ParJobParsed ==
    /\ bd_pc = "running" /\ bd_mode = "parallel"
    /\ \E i \in bd_left :
          /\ ~JobFails(state_df, bd_mode, i)
          /\ bd_frames' = Collected(bd_frames, JobFrame(state_df, bd_mode, i))
          /\ bd_left' = bd_left \ {i}
    /\ UNCHANGED <<state_df, bd_mode, bd_log, bd_pc, bd_result>>
    /\ UNCHANGED notBdVars

\* a worker ends in its except clause: it prints and returns None
ParJobFailed ==
    /\ bd_pc = "running" /\ bd_mode = "parallel"
    /\ \E i \in bd_left :
          /\ JobFails(state_df, bd_mode, i)
          /\ bd_log' = Append(bd_log, ErrorMessage(state_df, bd_mode, i))
          /\ bd_left' = bd_left \ {i}
    /\ UNCHANGED <<state_df, bd_mode, bd_frames, bd_pc, bd_result>>
    /\ UNCHANGED notBdVars

\* pd.concat(frames, ignore_index=True) if frames else an empty frame
BuildReturn ==
    /\ bd_pc = "running"
    /\ bd_left = {}
    /\ bd_result' = Concat(bd_frames)
    /\ bd_pc' = "done"
    /\ UNCHANGED <<state_df, bd_mode, bd_left, bd_frames, bd_log>>
    /\ UNCHANGED notBdVars

NextBd ==
    \/ build_county_dataframe
    \/ build_county_dataframe_parallel
    \/ SeqJobParsed
    \/ SeqJobFailed
    \/ ParJobParsed
    \/ ParJobFailed
    \/ BuildReturn

SpecBd == InitBd /\ [][NextBd]_vars

BdDone == bd_pc = "done"

FailedJobs == {i \in Jobs(state_df) : JobFails(state_df, bd_mode, i)}

SurvivingJobs == Jobs(state_df) \ FailedJobs

\* the rows of the result that carry the election_id of job i
ResultRowsOf(i) == SelectSeq(bd_result, LAMBDA r : r.election_id = i)

\* C10: when some jobs fail (HTTP 404, timeout, unparseable page) the county
\* build, sequential or parallel, completes without raising, returns exactly
\* the rows of the jobs that did not fail, and reports the number of skipped
\* units (a logged count equal to the number of failed jobs).
C10_PartialFailureWithSkippedCount ==
    (BdDone /\ FailedJobs # {}) =>
        /\ \A i \in SurvivingJobs :
              ResultRowsOf(i) = JobFrame(state_df, bd_mode, i)
        /\ \A i \in FailedJobs : ResultRowsOf(i) = <<>>
        /\ \E k \in 1..Len(bd_log) :
              /\ bd_log[k].level = "SKIPPED"
              /\ bd_log[k].count = Cardinality(FailedJobs)

\* C10, the part the code keeps: the build ends, with exactly the rows of the
\* jobs that did not fail, and one [ERROR] message for every failed job.
C10_RowsOfSurvivingJobs ==
    BdDone =>
        /\ \A i \in SurvivingJobs :
              ResultRowsOf(i) = JobFrame(state_df, bd_mode, i)
        /\ \A i \in FailedJobs : ResultRowsOf(i) = <<>>
        /\ Len(bd_result) = Len(Concat(bd_frames))
        /\ Len(bd_log) = Cardinality(FailedJobs)
        /\ \A k \in 1..Len(bd_log) :
              bd_log[k].level = "ERROR" /\ bd_log[k].election_id \in FailedJobs
        /\ \A i \in FailedJobs : \E k \in 1..Len(bd_log) : bd_log[k].election_id = i

\* Three jobs, one with a 404, one with a timeout and one that parsed: the
\* build is done and the log has two [ERROR] messages and no count.
C10_Witness ==
    /\ BdDone
    /\ Cardinality(Jobs(state_df)) = 3
    /\ \E i, k \in FailedJobs :
          state_df.rows[i].fetch = "404" /\ state_df.rows[k].fetch = "timeout"
    /\ \E i \in SurvivingJobs : ResultRowsOf(i) # <<>>
    /\ Len(bd_log) = 2

----------------------------------------------------------------------------
(* Ballotpedia: fetching a page                                            *)
(* SchoolBoardScraper._is_waf_challenge, _get_html_playwright, _get_html,  *)
(* _parse_year_page and scrape_year                                        *)

\* A district cell of a year table: its text and the link it carries ("" for
\* a cell without <a>).
District(name, href) == [district |-> name, href |-> href]

\* One <table> of a year page: whether its class contains "sortable", the
\* state its caption row names through _CAPTION_RE ("" when the caption does
\* not match), and its data rows (the <tr> after caption and header).
YearTable(sortable, caption_state, trs) ==
    [sortable |-> sortable, caption_state |-> caption_state, trs |-> trs]

\* A response body: its length in characters and its tables.
Page(len, tables) == [len |-> len, tables |-> tables]

TexasTable ==
    YearTable(TRUE, "Texas",
              <<District("Austin ISD", "/Austin_ISD"), District("Dallas ISD", "")>>)

OhioTable == YearTable(TRUE, "Ohio", <<District("Akron", "/Akron")>>)

\* The JavaScript puzzle AWS WAF answers with: short, no table.
ChallengePage == Page(2000, <<>>)

YearPages ==
    { Page(50000, <<TexasTable>>),
      Page(50000, <<TexasTable, OhioTable>>),
      Page(50000, <<>>),
      Page(50000, <<YearTable(FALSE, "Texas", TexasTable.trs),
                     YearTable(TRUE, "", TexasTable.trs),
                     YearTable(TRUE, "Ohio", <<>>)>>),
      Page(2000, <<OhioTable>>) }

\* The status codes the model answers with.
StatusCodes == {200, 202, 403, 404, 500, 503}

\* What the headless browser does when it is asked for the URL.
PlaywrightOutcomes ==
    { [kind |-> "not_installed", page |-> ChallengePage],
      [kind |-> "fails", page |-> ChallengePage],
      [kind |-> "content", page |-> ChallengePage],
      [kind |-> "content", page |-> Page(50000, <<TexasTable>>)] }

\* state.strip().lower() and r.state.lower() on the state names of the model.
StripLowerState(s) ==
    CASE s = "Texas" -> "texas"
      [] s = " TEXAS " -> "texas"
      [] s = "Ohio" -> "ohio"
      [] OTHER -> s

\* The  state  argument of scrape_year: None (here ""), or a state name.
StateArgs == {"", "Texas", " TEXAS ", "Ohio"}

\* The length below which a 202 response counts as a challenge.
WafMaxLen == 10000

FetchEnvs ==
    [get : {"response"}, status : StatusCodes, waf_action : {"", "challenge"},
     page : YearPages \cup {ChallengePage}, playwright : PlaywrightOutcomes,
     year : {2024}, state : StateArgs]
    \cup
    [get : {"timeout"}, status : {200}, waf_action : {""},
     page : {ChallengePage}, playwright : PlaywrightOutcomes,
     year : {2024}, state : StateArgs]

NoHtml == [none |-> TRUE, page |-> Page(0, <<>>)]
Html(page) == [none |-> FALSE, page |-> page]

InitFetch ==
    /\ fetch_env \in FetchEnvs
    /\ pw_calls = 0
    /\ fetch_log = <<>>
    /\ fetch_ret = NoHtml
    /\ year_rows = <<>>
    /\ fetch_pc = "input"
    /\ InitOthersIdleFetch

_is_waf_challenge(resp) ==
    \/ resp.waf_action = "challenge"
    \/ (resp.status = 202 /\ resp.page.len < WafMaxLen)

\* Which branch of _get_html the response takes, in the order of its tests.
GetHtmlBranch(env) ==
    IF env.get = "timeout" THEN "transport_error"
    ELSE IF env.status = 404 THEN "404"
    ELSE IF env.status >= 500 THEN "5xx"
    ELSE IF _is_waf_challenge(env) THEN "waf"
    ELSE IF env.status >= 400 THEN "http_error"
    ELSE "ok"

\* session.get raises (timeout, connection error): nothing catches it.
GetHtmlTransportError ==
    /\ fetch_pc = "input"
    /\ GetHtmlBranch(fetch_env) = "transport_error"
    /\ fetch_pc' = "raised"
    /\ UNCHANGED <<fetch_env, pw_calls, fetch_log, fetch_ret, year_rows>>
    /\ UNCHANGED notFetchVars

GetHtml404 ==
    /\ fetch_pc = "input"
    /\ GetHtmlBranch(fetch_env) = "404"
    /\ fetch_ret' = NoHtml
    /\ fetch_pc' = "fetched"
    /\ UNCHANGED <<fetch_env, pw_calls, fetch_log, year_rows>>
    /\ UNCHANGED notFetchVars

GetHtml5xx ==
    /\ fetch_pc = "input"
    /\ GetHtmlBranch(fetch_env) = "5xx"
    /\ fetch_log' = Append(fetch_log, "WARNING: 5xx - skipping")
    /\ fetch_ret' = NoHtml
    /\ fetch_pc' = "fetched"
    /\ UNCHANGED <<fetch_env, pw_calls, year_rows>>
    /\ UNCHANGED notFetchVars

\* The challenge branch, with _get_html_playwright failing at its import.
GetHtmlWafNotInstalled ==
    /\ fetch_pc = "input"
    /\ GetHtmlBranch(fetch_env) = "waf"
    /\ fetch_env.playwright.kind = "not_installed"
    /\ pw_calls' = pw_calls + 1
    /\ fetch_log' = fetch_log \o <<"WAF challenge - retrying with Playwright",
                                   "WARNING: playwright not installed">>
    /\ fetch_ret' = NoHtml
    /\ fetch_pc' = "fetched"
    /\ UNCHANGED <<fetch_env, year_rows>>
    /\ UNCHANGED notFetchVars

\* The challenge branch, with the browser raising (launch, goto, content).
GetHtmlWafFailed ==
    /\ fetch_pc = "input"
    /\ GetHtmlBranch(fetch_env) = "waf"
    /\ fetch_env.playwright.kind = "fails"
    /\ pw_calls' = pw_calls + 1
    /\ fetch_log' = fetch_log \o <<"WAF challenge - retrying with Playwright",
                                   "[playwright] fetching",
                                   "WARNING: playwright failed">>
    /\ fetch_ret' = NoHtml
    /\ fetch_pc' = "fetched"
    /\ UNCHANGED <<fetch_env, year_rows>>
    /\ UNCHANGED notFetchVars

\* The challenge branch, with the browser returning page.content().
GetHtmlWafContent ==
    /\ fetch_pc = "input"
    /\ GetHtmlBranch(fetch_env) = "waf"
    /\ fetch_env.playwright.kind = "content"
    /\ pw_calls' = pw_calls + 1
    /\ fetch_log' = fetch_log \o <<"WAF challenge - retrying with Playwright",
                                   "[playwright] fetching">>
    /\ fetch_ret' = Html(fetch_env.playwright.page)
    /\ fetch_pc' = "fetched"
    /\ UNCHANGED <<fetch_env, year_rows>>
    /\ UNCHANGED notFetchVars

\* resp.raise_for_status() on a 4xx that is neither 404 nor a challenge.
GetHtmlHttpError ==
    /\ fetch_pc = "input"
    /\ GetHtmlBranch(fetch_env) = "http_error"
    /\ fetch_pc' = "raised"
    /\ UNCHANGED <<fetch_env, pw_calls, fetch_log, fetch_ret, year_rows>>
    /\ UNCHANGED notFetchVars

GetHtmlOk ==
    /\ fetch_pc = "input"
    /\ GetHtmlBranch(fetch_env) = "ok"
    /\ fetch_ret' = Html(fetch_env.page)
    /\ fetch_pc' = "fetched"
    /\ UNCHANGED <<fetch_env, pw_calls, fetch_log, year_rows>>
    /\ UNCHANGED notFetchVars

SchoolBoardElectionRow(year, state, d) ==
    [year |-> year, state |-> state, district |-> d.district,
     district_url |-> IF d.href = "" THEN "" ELSE "https://ballotpedia.org" \o d.href]

\* The rows of one table: none unless the table is sortable, has a caption
\* row, a header row and a data row, and its caption names a state.
TableRows(t, year) ==
    IF ~t.sortable \/ Len(t.trs) + 2 < 3 \/ t.caption_state = "" THEN <<>>
    ELSE [k \in 1..Len(t.trs) |-> SchoolBoardElectionRow(year, t.caption_state, t.trs[k])]

_parse_year_page(page, year) ==
    Concat([k \in 1..Len(page.tables) |-> TableRows(page.tables[k], year)])

StateFilter(rows, state) ==
    IF state = "" THEN rows
    ELSE SelectSeq(rows, LAMBDA r : StripLowerState(r.state) = StripLowerState(state))

\* scrape_year, after its call of _get_html.
scrape_year ==
    /\ fetch_pc = "fetched"
    /\ year_rows' = IF fetch_ret.none THEN <<>>
                    ELSE StateFilter(_parse_year_page(fetch_ret.page, fetch_env.year),
                                     fetch_env.state)
    /\ fetch_pc' = "done"
    /\ UNCHANGED <<fetch_env, pw_calls, fetch_log, fetch_ret>>
    /\ UNCHANGED notFetchVars

NextFetch ==
    \/ GetHtmlTransportError
    \/ GetHtml404
    \/ GetHtml5xx
    \/ GetHtmlWafNotInstalled
    \/ GetHtmlWafFailed
    \/ GetHtmlWafContent
    \/ GetHtmlHttpError
    \/ GetHtmlOk
    \/ scrape_year

SpecFetch == InitFetch /\ [][NextFetch]_vars

\* The site answered the request with AWS WAF's challenge.
Challenged == fetch_env.get = "response" /\ fetch_env.status = 202
              /\ fetch_env.page = ChallengePage

\* What the caller of _get_html and of scrape_year gets for a page that does
\* not exist (404).
LooksAbsent == fetch_ret = NoHtml /\ year_rows = <<>>

\* C11 (as stated): a fetch that received a bot challenge has gone through the
\* Playwright fetcher exactly once, and what it hands to its caller is not
\* what a genuinely absent page (404) gives, None and then no rows.
C11_ChallengeRetriedNeverAbsent ==
    (fetch_pc = "done" /\ Challenged) => (pw_calls = 1 /\ ~LooksAbsent)

\* C11 (the part that holds): the Playwright fetcher is entered at most once
\* per fetch, and exactly when a response that is neither 404 nor 5xx is a
\* challenge.
C11_AtMostOneRetry ==
    /\ pw_calls <= 1
    /\ fetch_pc \in {"fetched", "done"} =>
           (pw_calls = 1 <=> GetHtmlBranch(fetch_env) = "waf")

\* A challenged fetch whose browser retry failed, ended like a 404.
C11_Witness ==
    /\ fetch_pc = "done" /\ Challenged
    /\ fetch_env.playwright.kind = "fails"
    /\ pw_calls = 1 /\ LooksAbsent

----------------------------------------------------------------------------
(* ElectionStats: paging through the search results                        *)
(* StateHttpClient.get_html, fetch_search_results, iter_search_results,    *)
(* fetch_all_search_results                                                *)

\* Most pages a site serves, and largest max_pages, the model explores.
MaxIterPages == 3

\* A parsed search row, by its key.
SearchKey(election_id, candidate_id) ==
    [election_id |-> election_id, candidate_id |-> candidate_id]

\* What a GET of one search page gives: a timeout, or a response with its
\* status, and in its body the results table (or none) with its rows.
SearchPage(get, status, has_table, rows) ==
    [get |-> get, status |-> status, has_table |-> has_table, rows |-> rows]

SearchPagePool ==
    { SearchPage("response", 200, TRUE, <<SearchKey(1, 1), SearchKey(1, 2)>>),
      SearchPage("response", 200, TRUE, <<SearchKey(1, 2), SearchKey(2, 1)>>),
      SearchPage("response", 200, TRUE, <<SearchKey(3, 1)>>),
      SearchPage("response", 200, TRUE, <<SearchKey(4, 1), SearchKey(4, 1)>>),
      SearchPage("response", 200, TRUE, <<>>),
      SearchPage("response", 200, FALSE, <<>>),
      SearchPage("response", 404, FALSE, <<>>),
      SearchPage("response", 500, FALSE, <<>>),
      SearchPage("timeout", 200, FALSE, <<>>) }

\* A site: its pages 1..n, and what it serves for a page number past the last
\* (the last page again, or a page with an empty table).
SearchSites ==
    [pages : SeqsUpTo(SearchPagePool, MaxIterPages) \ {<<>>},
     beyond : {"repeat_last", "empty"},
     start_page : {1, 2},
     max_pages : 1..MaxIterPages]

PageAt(site, p) ==
    IF p <= Len(site.pages) THEN site.pages[p]
    ELSE IF site.beyond = "repeat_last" THEN site.pages[Len(site.pages)]
    ELSE SearchPage("response", 200, TRUE, <<>>)

InitIter ==
    /\ it_site \in SearchSites
    /\ it_page = 1
    /\ it_iter = 0
    /\ seen_keys = {}
    /\ it_yielded = <<>>
    /\ it_pc = "input"
    /\ InitOthersIdleIter

\* get_html: requests.get raises on a timeout, raise_for_status on any 4xx
\* or 5xx.
GetHtmlRaises(resp) == resp.get = "timeout" \/ resp.status >= 400

\* parse_search_results on the body: the rows of the results table; the xpath
\* selects nothing when the table is absent.
SearchRowsOf(resp, p) ==
    IF resp.has_table
    THEN [k \in 1..Len(resp.rows) |->
             [election_id |-> resp.rows[k].election_id,
              candidate_id |-> resp.rows[k].candidate_id,
              page |-> p]]
    ELSE <<>>

RowKey(r) == SearchKey(r.election_id, r.candidate_id)

NewRows(rows, seen) == SelectSeq(rows, LAMBDA r : RowKey(r) \notin seen)

\* iter_search_results is entered: seen_keys = set(), page = start_page.
iter_search_results ==
    /\ it_pc = "input"
    /\ it_page' = it_site.start_page
    /\ it_pc' = "loop"
    /\ UNCHANGED <<it_site, it_iter, seen_keys, it_yielded>>
    /\ UNCHANGED notIterVars

\* One turn of the loop in which the fetch raises: the exception leaves the
\* generator and fetch_all_search_results.
IterFetchRaises ==
    /\ it_pc = "loop" /\ it_iter < it_site.max_pages
    /\ GetHtmlRaises(PageAt(it_site, it_page))
    /\ it_iter' = it_iter + 1
    /\ it_pc' = "raised"
    /\ UNCHANGED <<it_site, it_page, seen_keys, it_yielded>>
    /\ UNCHANGED notIterVars

\* if not rows: break
IterNoRows ==
    /\ it_pc = "loop" /\ it_iter < it_site.max_pages
    /\ ~GetHtmlRaises(PageAt(it_site, it_page))
    /\ SearchRowsOf(PageAt(it_site, it_page), it_page) = <<>>
    /\ it_iter' = it_iter + 1
    /\ it_pc' = "done"
    /\ UNCHANGED <<it_site, it_page, seen_keys, it_yielded>>
    /\ UNCHANGED notIterVars

\* if not new_rows: break
IterNoNewRows ==
    /\ it_pc = "loop" /\ it_iter < it_site.max_pages
    /\ ~GetHtmlRaises(PageAt(it_site, it_page))
    /\ LET rows == SearchRowsOf(PageAt(it_site, it_page), it_page)
       IN  rows # <<>> /\ NewRows(rows, seen_keys) = <<>>
    /\ it_iter' = it_iter + 1
    /\ it_pc' = "done"
    /\ UNCHANGED <<it_site, it_page, seen_keys, it_yielded>>
    /\ UNCHANGED notIterVars

\* The new rows are yielded and their keys remembered; page += 1.
IterYield ==
    /\ it_pc = "loop" /\ it_iter < it_site.max_pages
    /\ ~GetHtmlRaises(PageAt(it_site, it_page))
    /\ LET rows == SearchRowsOf(PageAt(it_site, it_page), it_page)
           new_rows == NewRows(rows, seen_keys)
       IN  /\ new_rows # <<>>
           /\ seen_keys' = seen_keys \cup {RowKey(new_rows[k]) : k \in 1..Len(new_rows)}
           /\ it_yielded' = it_yielded \o new_rows
    /\ it_iter' = it_iter + 1
    /\ it_page' = it_page + 1
    /\ UNCHANGED <<it_site, it_pc>>
    /\ UNCHANGED notIterVars

\* range(max_pages) is exhausted.
IterExhausted ==
    /\ it_pc = "loop" /\ it_iter = it_site.max_pages
    /\ it_pc' = "done"
    /\ UNCHANGED <<it_site, it_page, it_iter, seen_keys, it_yielded>>
    /\ UNCHANGED notIterVars

NextIter ==
    \/ iter_search_results
    \/ IterFetchRaises
    \/ IterNoRows
    \/ IterNoNewRows
    \/ IterYield
    \/ IterExhausted

SpecIter == InitIter /\ [][NextIter]_vars

\* fetch_all_search_results: list(iter_search_results(...)), the rows when
\* the generator ends and nothing when it raises.
fetch_all_search_results == IF it_pc = "done" THEN it_yielded ELSE <<>>

\* The page the loop asked for last.
LastFetched == PageAt(it_site, it_page)

\* C12 (as stated, ElectionStats client): a page fetch answered with HTTP 404
\* is never raised to the caller as an error.
C12_NotFoundNeverRaised ==
    it_pc = "raised" =>
        ~(LastFetched.get = "response" /\ LastFetched.status = 404)

\* C12 (the ElectionStats side as the code has it): a turn of the loop whose
\* fetch is answered with a status of 400 or more, 404 included, or times
\* out, ends the scrape by raising.
C12_ClientRaisesOnEveryErrorStatus ==
    [][(it_pc = "loop" /\ it_iter < it_site.max_pages /\ GetHtmlRaises(LastFetched))
        => it_pc' = "raised"]_vars

\* C12 (the Ballotpedia side, which holds): a 404 gives None from _get_html
\* and no rows from scrape_year, and raises nothing.
C12_BallotpediaNotFoundIsNoData ==
    (fetch_pc # "input" /\ fetch_env.get = "response" /\ fetch_env.status = 404)
    => (fetch_pc # "raised" /\ fetch_ret = NoHtml /\ year_rows = <<>>)

\* The first page asked for is a 404, and the scrape has raised.
C12_Witness ==
    /\ it_pc = "raised" /\ it_iter = 1
    /\ LastFetched.get = "response" /\ LastFetched.status = 404

\* The first page of the scrape is served, and has no results table.
FirstPageTableAbsent ==
    LET first == PageAt(it_site, it_site.start_page)
    IN  ~GetHtmlRaises(first) /\ ~first.has_table

\* C14 (as stated): a results table absent from the very first page of the
\* scrape surfaces to the caller as an error, not as an empty result.
C14_FirstPageAbsentSurfaces ==
    (it_pc \in {"done", "raised"} /\ FirstPageTableAbsent) => it_pc = "raised"

\* C14 (the part that holds): a turn of the loop whose page is served without
\* the results table yields no record and ends the scrape without an error,
\* on every page.
C14_AbsentTableGivesZeroRecords ==
    [][(it_pc = "loop" /\ it_iter < it_site.max_pages
          /\ ~GetHtmlRaises(LastFetched) /\ ~LastFetched.has_table)
        => (it_pc' = "done" /\ it_yielded' = it_yielded)]_vars

\* The first page has no table and the scrape ended with an empty result.
C14_Witness ==
    /\ it_pc = "done" /\ it_iter = 1 /\ FirstPageTableAbsent
    /\ fetch_all_search_results = <<>>

----------------------------------------------------------------------------
(* ElectionStats: joining the county votes with the statewide rows         *)
(* run_scrape_yearly._join_county_with_state                               *)

\* Most rows of either input frame the model explores.
MaxJoinRows == 2

JOIN_KEYS == {"state", "election_id", "candidate_id"}

COUNTY_COLS == {"state", "year", "election_id", "candidate_id",
                "county_or_city", "candidate_name", "votes"}

\* [f.name for f in fields(ElectionSearchRow)]
model_cols == {"state", "election_id", "year", "office", "district", "stage",
               "candidate_id", "candidate", "party", "total_vote_count",
               "vote_percentage", "contest_outcome"}

CountyRow(state, election_id, candidate_id, county, votes) ==
    [state |-> state, election_id |-> election_id, candidate_id |-> candidate_id,
     county_or_city |-> county, votes |-> votes]

StateRow(state, election_id, candidate_id, candidate, outcome) ==
    [state |-> state, election_id |-> election_id, candidate_id |-> candidate_id,
     candidate |-> candidate, contest_outcome |-> outcome]

CountyRowPool ==
    { CountyRow("virginia", 1, 1, "Wise", 5),
      CountyRow("virginia", 1, 2, "Wise", 3),
      CountyRow("virginia", 2, 1, "York", 4) }

StateRowPool ==
    { StateRow("virginia", 1, 1, "ADAMS", "Won"),
      StateRow("virginia", 1, 1, "ADAMS (again)", "Won"),
      StateRow("virginia", 1, 2, "BAKER", "Lost") }

\* A frame is its set of columns and its rows; pd.DataFrame() has neither.
CountyFrames ==
    { f \in [columns : {COUNTY_COLS, COUNTY_COLS \ {"candidate_id"},
                        COUNTY_COLS \ {"state"}, {}},
             rows : SeqsUpTo(CountyRowPool, MaxJoinRows)] :
        f.columns = {} => f.rows = <<>> }

StateFrames ==
    { f \in [columns : {model_cols, model_cols \ {"election_id"},
                        model_cols \ {"office"}, {}},
             rows : SeqsUpTo(StateRowPool, MaxJoinRows)] :
        f.columns = {} => f.rows = <<>> }

InitJoin ==
    /\ county_all \in CountyFrames
    /\ state_all \in StateFrames
    /\ joined = <<>>
    /\ join_pc = "input"
    /\ InitOthersIdleJoin

\* DataFrame.empty: either axis has length 0.
FrameEmpty(df) == df.rows = <<>> \/ df.columns = {}

missing_left == {k \in JOIN_KEYS : k \notin county_all.columns}
missing_right == {k \in JOIN_KEYS : k \notin state_all.columns}
missing_model == {c \in model_cols : c \notin state_all.columns}

JoinKey(r) == <<r.state, r.election_id, r.candidate_id>>

\* drop_duplicates(subset=JOIN_KEYS): the first row of each key is kept.
DropDuplicates(rows) ==
    SelectSeq([k \in 1..Len(rows) |->
                  [row |-> rows[k],
                   first |-> \A j \in 1..(k - 1) : JoinKey(rows[j]) # JoinKey(rows[k])]],
              LAMBDA x : x.first)

\* county_all.merge(state_subset, on=JOIN_KEYS, how="left"): every county row
\* once, with the statewide row of its key, or missing values when there is
\* none.
LeftMerge(left, right) ==
    [k \in 1..Len(left) |->
        LET hits == {j \in 1..Len(right) : JoinKey(right[j].row) = JoinKey(left[k])}
        IN  IF hits = {}
            THEN [county |-> left[k], matched |-> FALSE, candidate |-> "NA",
                  contest_outcome |-> "NA"]
            ELSE LET j == CHOOSE j \in hits : TRUE
                 IN  [county |-> left[k], matched |-> TRUE,
                      candidate |-> right[j].row.candidate,
                      contest_outcome |-> right[j].row.contest_outcome]]

\* if county_all.empty or state_all.empty: return pd.DataFrame()
JoinReturnEmpty ==
    /\ join_pc = "input"
    /\ FrameEmpty(county_all) \/ FrameEmpty(state_all)
    /\ joined' = <<>>
    /\ join_pc' = "done"
    /\ UNCHANGED <<county_all, state_all>>
    /\ UNCHANGED notJoinVars

JoinRaiseMissingKeys ==
    /\ join_pc = "input"
    /\ ~(FrameEmpty(county_all) \/ FrameEmpty(state_all))
    /\ missing_left # {} \/ missing_right # {}
    /\ join_pc' = "raised"
    /\ UNCHANGED <<county_all, state_all, joined>>
    /\ UNCHANGED notJoinVars

JoinRaiseMissingModel ==
    /\ join_pc = "input"
    /\ ~(FrameEmpty(county_all) \/ FrameEmpty(state_all))
    /\ missing_left = {} /\ missing_right = {}
    /\ missing_model # {}
    /\ join_pc' = "raised"
    /\ UNCHANGED <<county_all, state_all, joined>>
    /\ UNCHANGED notJoinVars

_join_county_with_state ==
    /\ join_pc = "input"
    /\ ~(FrameEmpty(county_all) \/ FrameEmpty(state_all))
    /\ missing_left = {} /\ missing_right = {} /\ missing_model = {}
    /\ joined' = LeftMerge(county_all.rows, DropDuplicates(state_all.rows))
    /\ join_pc' = "done"
    /\ UNCHANGED <<county_all, state_all>>
    /\ UNCHANGED notJoinVars

NextJoin ==
    \/ JoinReturnEmpty
    \/ JoinRaiseMissingKeys
    \/ JoinRaiseMissingModel
    \/ _join_county_with_state

SpecJoin == InitJoin /\ [][NextJoin]_vars

JoinInputLacksColumn == missing_left # {} \/ missing_right # {} \/ missing_model # {}

\* C13 (as stated, the join): whenever a join key or an expected statewide
\* column is missing from an input of the join, the join raises, for every
\* input, empty frames included.
C13_MissingColumnAlwaysRaises ==
    (join_pc # "input" /\ JoinInputLacksColumn) => join_pc = "raised"

\* C13 (the part of the join that holds): with two non-empty inputs a missing
\* key or model column raises before any merge, and with an empty input no
\* merge is made either.
C13_JoinRaisesUnlessEmpty ==
    (join_pc # "input" /\ JoinInputLacksColumn) =>
        /\ joined = <<>>
        /\ (~FrameEmpty(county_all) /\ ~FrameEmpty(state_all)) => join_pc = "raised"

\* A statewide frame with rows but without election_id, joined with the
\* empty county frame: returned as an empty frame.
C13_Witness ==
    /\ join_pc = "done" /\ joined = <<>>
    /\ county_all.rows = <<>> /\ state_all.rows # <<>>
    /\ "election_id" \notin state_all.columns

----------------------------------------------------------------------------
(* NorthCarolina: the two rollups in sequence                              *)
(* aggregate.aggregate_to_county_level, aggregate.aggregate_county_to_state *)

\* Most precinct rows the model explores.
MaxRollRows == 3

\* A precinct row: its county, its contest (one value of state,
\* election_date, contest_name, jurisdiction, office, district), its choice
\* (choice, choice_party) and its total_votes.  "NA" is a missing key value.
PrecinctRow(county, contest, choice, total_votes) ==
    [county |-> county, contest |-> contest, choice |-> choice,
     total_votes |-> total_votes]

PrecinctRowPool ==
    { PrecinctRow("WAKE", "US SENATE", "ADAMS", Num(2)),
      PrecinctRow("WAKE", "US SENATE", "ADAMS", Num(1)),
      PrecinctRow("WAKE", "US SENATE", "BAKER", Num(1)),
      PrecinctRow("ALAMANCE", "US SENATE", "ADAMS", Num(1)),
      PrecinctRow("ALAMANCE", "US SENATE", "BAKER", Num(0)),
      PrecinctRow("NA", "US SENATE", "ADAMS", Num(1)),
      PrecinctRow("WAKE", "NA", "ADAMS", Num(2)),
      PrecinctRow("WAKE", "US SENATE", "ADAMS", NAval) }

PrecinctFrames ==
    [cols_missing : {{}, {"county"}, {"total_votes"}, {"office", "provisional"}},
     rows : SeqsUpTo(PrecinctRowPool, MaxRollRows)]

InitRoll ==
    /\ roll_df \in PrecinctFrames
    /\ county_out = <<>>
    /\ state_out = <<>>
    /\ roll_pc = "input"
    /\ InitOthersIdleRoll

county_group_cols == group_cols \cup {"county"}

\* missing = [c for c in required if c not in df.columns]
CountyMissing(df) == {c \in county_group_cols \cup vote_cols : c \in df.cols_missing}

CountyKey(r) == [county |-> r.county, contest |-> r.contest, choice |-> r.choice]

RECURSIVE SumVotes(_)
SumVotes(rows) ==
    IF rows = <<>> THEN 0 ELSE ToInt64(Head(rows).total_votes).v + SumVotes(Tail(rows))

\* groupby(group_cols, dropna=True): the rows with a missing key value leave
\* the frame.
CountyRollup_DropNA(rows) ==
    LET kept == SelectSeq(rows, LAMBDA r : r.county # "NA" /\ r.contest # "NA")
        groups == {CountyKey(kept[k]) : k \in 1..Len(kept)}
    IN  [g \in groups |->
            Num(SumVotes(SelectSeq(kept, LAMBDA r : CountyKey(r) = g)))]

\* to_numeric(errors="coerce").fillna(0).astype("Int64"), then
\* groupby(group_cols, dropna=False, as_index=False)[vote_cols].sum()
CountyRollup(rows) ==
    LET groups == {CountyKey(rows[k]) : k \in 1..Len(rows)}
    IN  [g \in groups |->
            Num(SumVotes(SelectSeq(rows, LAMBDA r : CountyKey(r) = g)))]

RollRaiseMissing ==
    /\ roll_pc = "input"
    /\ CountyMissing(roll_df) # {}
    /\ roll_pc' = "raised"
    /\ UNCHANGED <<roll_df, county_out, state_out>>
    /\ UNCHANGED notRollVars

aggregate_to_county_level ==
    /\ roll_pc = "input"
    /\ CountyMissing(roll_df) = {}
    /\ county_out' = CountyRollup(roll_df.rows)
    /\ roll_pc' = "county"
    /\ UNCHANGED <<roll_df, state_out>>
    /\ UNCHANGED notRollVars

\* aggregate_county_to_state on the county-level frame, which has every
\* required column.
RollCountyToState ==
    /\ roll_pc = "county"
    /\ state_out' = StateRollup(county_out)
    /\ roll_pc' = "done"
    /\ UNCHANGED <<roll_df, county_out>>
    /\ UNCHANGED notRollVars

NextRoll ==
    \/ RollRaiseMissing
    \/ aggregate_to_county_level
    \/ RollCountyToState

SpecRollup == InitRoll /\ [][NextRoll]_vars

\* C13 (the county rollup, which holds): a frame that lacks a required
\* grouping or vote column makes the rollup raise with nothing aggregated,
\* whatever its rows are, none included.
C13_CountyRollupRaisesOnMissingColumn ==
    (roll_pc # "input" /\ CountyMissing(roll_df) # {}) =>
        (roll_pc = "raised" /\ county_out = <<>> /\ state_out = <<>>)

\* C13 (the state rollup, which holds): the same for aggregate_county_to_state.
C13_StateRollupRaisesOnMissingColumn ==
    (agg_pc # "input" /\ AggMissing(df_county) # {}) =>
        (agg_pc = "raised" /\ out = <<>>)

\* C19: the county rollup has one row per (county, contest, choice) of the
\* input, rows with a missing key value included, whose total is the sum of
\* the total_votes of the input rows of that group (a missing vote count as
\* 0); the state rollup has one row per (contest, choice), whose total is the
\* sum of the county totals of that group; so the totals of a contest add up
\* to the votes of its input rows, every row counted once.
C19_RollupsConserveVotes ==
    /\ roll_pc \in {"county", "done"} =>
        /\ DOMAIN county_out = {CountyKey(roll_df.rows[k]) : k \in 1..Len(roll_df.rows)}
        /\ \A g \in DOMAIN county_out :
               county_out[g].v =
                   SumVotes(SelectSeq(roll_df.rows, LAMBDA r : CountyKey(r) = g))
    /\ roll_pc = "done" =>
        /\ DOMAIN state_out =
               {[contest |-> roll_df.rows[k].contest, choice |-> roll_df.rows[k].choice] :
                   k \in 1..Len(roll_df.rows)}
        /\ \A s \in DOMAIN state_out :
               /\ state_out[s].total_votes =
                      SumOver([g \in DOMAIN county_out |-> county_out[g].v],
                              {g \in DOMAIN county_out :
                                   g.contest = s.contest /\ g.choice = s.choice})
               /\ SumOver([t \in DOMAIN state_out |-> state_out[t].total_votes],
                          {t \in DOMAIN state_out : t.contest = s.contest})
                    = SumVotes(SelectSeq(roll_df.rows, LAMBDA r : r.contest = s.contest))

\* Two precinct rows of one group, a row without county and a row without
\* votes, all rolled up: ADAMS has the 3 votes of the three input rows.
C19_Witness ==
    /\ roll_pc = "done"
    /\ Len(roll_df.rows) = 3
    /\ \E i, j, k \in 1..3 :
          /\ i # j
          /\ CountyKey(roll_df.rows[i]) = CountyKey(roll_df.rows[j])
          /\ roll_df.rows[i].total_votes = Num(2)
          /\ roll_df.rows[j].total_votes = NAval
          /\ roll_df.rows[k].county = "NA"
    /\ [contest |-> "US SENATE", choice |-> "ADAMS"] \in DOMAIN state_out
    /\ state_out[[contest |-> "US SENATE", choice |-> "ADAMS"]].total_votes = 3

----------------------------------------------------------------------------
(* Ballotpedia: districts joined with their candidates                     *)
(* SchoolBoardScraper._parse_district_page (voteboxes), scrape_with_results, *)
(* scrape_joined_to_dataframe                                              *)

\* Most district rows of a year table the model explores.
MaxDistricts == 2

\* What _get_html returns for a response, and whether it raises instead: the
\* branches of the fetch actions above, as a function of the response.
GetHtmlRaisesError(env) == GetHtmlBranch(env) \in {"transport_error", "http_error"}

GetHtmlReturn(env) ==
    IF GetHtmlBranch(env) = "ok" THEN Html(env.page)
    ELSE IF GetHtmlBranch(env) = "waf" /\ env.playwright.kind = "content"
         THEN Html(env.playwright.page)
    ELSE NoHtml

\* A results_row of a votebox: whether it has a text cell, the candidate name
\* left after the party suffix is stripped ("" when nothing is left), and
\* whether its class contains "winner".
ResultsRow(has_text_cell, candidate, is_winner) ==
    [has_text_cell |-> has_text_cell, candidate |-> candidate, is_winner |-> is_winner]

\* A district page: its length and its voteboxes, each a heading and the
\* results rows of its tables.
DistrictPage(len, voteboxes) == [len |-> len, voteboxes |-> voteboxes]

NoDataPage == DistrictPage(50000, <<>>)

OneCandidatePage ==
    DistrictPage(50000, <<[heading |-> "General election",
                           trs |-> <<ResultsRow(TRUE, "Ann Adams", TRUE)>>]>>)

TwoCandidatePage ==
    DistrictPage(50000, <<[heading |-> "General election",
                           trs |-> <<ResultsRow(TRUE, "Ann Adams", TRUE),
                                     ResultsRow(FALSE, "", FALSE),
                                     ResultsRow(TRUE, "", FALSE),
                                     ResultsRow(TRUE, "Bo Baker", FALSE)>>]>>)

PuzzlePage == DistrictPage(2000, <<>>)

DistrictResponse(get, status, page, pw_kind) ==
    [get |-> get, status |-> status, waf_action |-> "", page |-> page,
     playwright |-> [kind |-> pw_kind, page |-> PuzzlePage]]

\* What the site does for a district URL.
DistrictFetchPool ==
    { DistrictResponse("response", 404, PuzzlePage, "fails"),
      DistrictResponse("timeout", 200, PuzzlePage, "fails"),
      DistrictResponse("response", 202, PuzzlePage, "fails"),
      DistrictResponse("response", 200, NoDataPage, "fails"),
      DistrictResponse("response", 200, OneCandidatePage, "fails"),
      DistrictResponse("response", 200, TwoCandidatePage, "fails") }

DistrictCellPool ==
    { District("Austin ISD", "/Austin_ISD"),
      District("Dallas ISD", ""),
      District("Houston ISD", "/Houston_ISD") }

DistrictUrls ==
    {"https://ballotpedia.org/Austin_ISD", "https://ballotpedia.org/Houston_ISD"}

YearResponse(get, status, trs) ==
    [get |-> get, status |-> status, waf_action |-> "",
     page |-> Page(50000, <<YearTable(TRUE, "Texas", trs)>>),
     playwright |-> [kind |-> "fails", page |-> ChallengePage],
     year |-> 2024, state |-> ""]

\* The year page (served, absent, or timing out) with up to MaxDistricts
\* district rows, the same district twice included, and the district pages.
JoinedWorlds ==
    [year_env : {YearResponse("response", 200, trs) :
                    trs \in SeqsUpTo(DistrictCellPool, MaxDistricts)}
                \cup {YearResponse("response", 404, <<>>),
                      YearResponse("timeout", 200, <<>>)},
     site : [DistrictUrls -> DistrictFetchPool]]

InitSj ==
    /\ sj_world \in JoinedWorlds
    /\ district_rows = <<>>
    /\ sj_i = 0
    /\ all_results = <<>>
    /\ sj_out = <<>>
    /\ sj_pc = "input"
    /\ InitOthersIdleSj

\* scrape_year as a function of the response to the year page.
ScrapeYearRows(env) ==
    IF GetHtmlReturn(env).none THEN <<>>
    ELSE StateFilter(_parse_year_page(GetHtmlReturn(env).page, env.year), env.state)

SchoolBoardCandidateResult(district_row, heading, tr) ==
    [year |-> district_row.year, state |-> district_row.state,
     district |-> district_row.district, district_url |-> district_row.district_url,
     race |-> heading, candidate |-> tr.candidate, is_winner |-> tr.is_winner]

\* The rows of one votebox: a results row without a text cell, or whose
\* candidate name is empty, is skipped.
VoteboxRows(votebox, district_row) ==
    LET kept == SelectSeq(votebox.trs, LAMBDA tr : tr.has_text_cell /\ tr.candidate # "")
    IN  [k \in 1..Len(kept) |->
            SchoolBoardCandidateResult(district_row, votebox.heading, kept[k])]

_parse_district_page(page, district_row) ==
    Concat([k \in 1..Len(page.voteboxes) |-> VoteboxRows(page.voteboxes[k], district_row)])

\* The candidate rows one turn of the loop adds for a district row: none
\* without a URL or when _get_html returns None.
DistrictResults(site, district_row) ==
    IF district_row.district_url = "" THEN <<>>
    ELSE IF GetHtmlReturn(site[district_row.district_url]).none THEN <<>>
    ELSE _parse_district_page(GetHtmlReturn(site[district_row.district_url]).page,
                              district_row)

DistrictRaises(site, district_row) ==
    district_row.district_url # "" /\ GetHtmlRaisesError(site[district_row.district_url])

SjKey(r) == <<r.year, r.state, r.district, r.district_url>>

NoCandidate == [race |-> "NA", candidate |-> "NA", is_winner |-> FALSE]

\* One row of the returned frame: the district row (and its position in
\* districts_df), and the candidate columns, missing or a candidate's.
JoinedRow(i, district_row, has_candidate, c) ==
    [left |-> i, district |-> district_row, has_candidate |-> has_candidate,
     race |-> c.race, candidate |-> c.candidate, is_winner |-> c.is_winner]

\* districts_df with the candidate columns set to pd.NA
DistrictsOnly(rows) ==
    [i \in 1..Len(rows) |-> JoinedRow(i, rows[i], FALSE, NoCandidate)]

\* districts_df.merge(candidates_df[...], on=join_keys, how="left"): each
\* district row with every candidate row of its key, or once with missing
\* candidate columns.
MergeCandidates(rows, candidates) ==
    Concat([i \in 1..Len(rows) |->
        LET hits == SelectSeq(candidates, LAMBDA c : SjKey(c) = SjKey(rows[i]))
        IN  IF hits = <<>> THEN <<JoinedRow(i, rows[i], FALSE, NoCandidate)>>
            ELSE [k \in 1..Len(hits) |-> JoinedRow(i, rows[i], TRUE, hits[k])]])

\* scrape_year raises: the GET of the year page timed out.
SjYearRaises ==
    /\ sj_pc = "input"
    /\ GetHtmlRaisesError(sj_world.year_env)
    /\ sj_pc' = "raised"
    /\ UNCHANGED <<sj_world, district_rows, sj_i, all_results, sj_out>>
    /\ UNCHANGED notSjVars

\* if not district_rows: return pd.DataFrame()
SjNoDistricts ==
    /\ sj_pc = "input"
    /\ ~GetHtmlRaisesError(sj_world.year_env)
    /\ ScrapeYearRows(sj_world.year_env) = <<>>
    /\ sj_pc' = "done"
    /\ UNCHANGED <<sj_world, district_rows, sj_i, all_results, sj_out>>
    /\ UNCHANGED notSjVars

scrape_joined_to_dataframe ==
    /\ sj_pc = "input"
    /\ ~GetHtmlRaisesError(sj_world.year_env)
    /\ ScrapeYearRows(sj_world.year_env) # <<>>
    /\ district_rows' = ScrapeYearRows(sj_world.year_env)
    /\ sj_pc' = "loop"
    /\ UNCHANGED <<sj_world, sj_i, all_results, sj_out>>
    /\ UNCHANGED notSjVars

\* One turn of the loop over district_rows that does not raise.
SjDistrict ==
    /\ sj_pc = "loop" /\ sj_i < Len(district_rows)
    /\ ~DistrictRaises(sj_world.site, district_rows[sj_i + 1])
    /\ all_results' = all_results \o DistrictResults(sj_world.site, district_rows[sj_i + 1])
    /\ sj_i' = sj_i + 1
    /\ UNCHANGED <<sj_world, district_rows, sj_out, sj_pc>>
    /\ UNCHANGED notSjVars

\* One turn of the loop whose _get_html raises: nothing catches it.
SjDistrictRaises ==
    /\ sj_pc = "loop" /\ sj_i < Len(district_rows)
    /\ DistrictRaises(sj_world.site, district_rows[sj_i + 1])
    /\ sj_pc' = "raised"
    /\ UNCHANGED <<sj_world, district_rows, sj_i, all_results, sj_out>>
    /\ UNCHANGED notSjVars

\* if not all_results: the districts with empty candidate columns
SjReturnDistricts ==
    /\ sj_pc = "loop" /\ sj_i = Len(district_rows)
    /\ all_results = <<>>
    /\ sj_out' = DistrictsOnly(district_rows)
    /\ sj_pc' = "done"
    /\ UNCHANGED <<sj_world, district_rows, sj_i, all_results>>
    /\ UNCHANGED notSjVars

SjReturnJoined ==
    /\ sj_pc = "loop" /\ sj_i = Len(district_rows)
    /\ all_results # <<>>
    /\ sj_out' = MergeCandidates(district_rows, all_results)
    /\ sj_pc' = "done"
    /\ UNCHANGED <<sj_world, district_rows, sj_i, all_results>>
    /\ UNCHANGED notSjVars

NextSj ==
    \/ SjYearRaises
    \/ SjNoDistricts
    \/ scrape_joined_to_dataframe
    \/ SjDistrict
    \/ SjDistrictRaises
    \/ SjReturnDistricts
    \/ SjReturnJoined

SpecJoined == InitSj /\ [][NextSj]_vars

\* The rows of the returned frame that carry district row i.
JoinedRowsOf(i) == SelectSeq(sj_out, LAMBDA r : r.left = i)

\* The number of candidates on the page of district row i.
CandidatesOf(i) == Len(DistrictResults(sj_world.site, district_rows[i]))

DistinctDistricts ==
    \A i, j \in 1..Len(district_rows) :
        i # j => SjKey(district_rows[i]) # SjKey(district_rows[j])

\* C17 (as stated): in the returned frame every district row of scrape_year
\* appears, in exactly k rows when its page has k >= 1 candidates and in
\* exactly one row, with missing candidate columns, when it has none.
C17_DistrictRowsFanOutByCandidates ==
    sj_pc = "done" /\ district_rows # <<>> =>
        \A i \in 1..Len(district_rows) :
            /\ JoinedRowsOf(i) # <<>>
            /\ CandidatesOf(i) >= 1 => Len(JoinedRowsOf(i)) = CandidatesOf(i)
            /\ CandidatesOf(i) = 0 =>
                   /\ Len(JoinedRowsOf(i)) = 1
                   /\ ~JoinedRowsOf(i)[1].has_candidate

\* C17 (the part that holds): every district row appears at least once, and
\* the counts are as stated when no two district rows share (year, state,
\* district, district_url).
C17_HoldsForDistinctDistricts ==
    sj_pc = "done" /\ district_rows # <<>> =>
        \A i \in 1..Len(district_rows) :
            /\ JoinedRowsOf(i) # <<>>
            /\ DistinctDistricts =>
                /\ CandidatesOf(i) >= 1 => Len(JoinedRowsOf(i)) = CandidatesOf(i)
                /\ CandidatesOf(i) = 0 =>
                       /\ Len(JoinedRowsOf(i)) = 1
                       /\ ~JoinedRowsOf(i)[1].has_candidate

\* The year table lists one district twice and its page has two candidates:
\* each of the two district rows is in four rows of the frame.
C17_Witness ==
    /\ sj_pc = "done" /\ Len(district_rows) = 2
    /\ SjKey(district_rows[1]) = SjKey(district_rows[2])
    /\ CandidatesOf(1) = 2
    /\ Len(JoinedRowsOf(1)) = 4 /\ Len(sj_out) = 8

----------------------------------------------------------------------------
(* Ballotpedia: the command-line run                                       *)
(* scrape_school_boards.main                                               *)

_FIRST_AVAILABLE_YEAR == 2013

\* --end: not given, or a year.
NoEnd == [given |-> FALSE, v |-> 0]
EndYear(y) == [given |-> TRUE, v |-> y]

\* What the site serves for one year: the year page and the district pages.
YearWorld(year_env, austin, houston) ==
    [year_env |-> year_env,
     site |-> [u \in DistrictUrls |->
                  IF u = "https://ballotpedia.org/Austin_ISD" THEN austin ELSE houston]]

NotFoundResponse == DistrictResponse("response", 404, PuzzlePage, "fails")
TimeoutResponse == DistrictResponse("timeout", 200, PuzzlePage, "fails")

YearWorldPool ==
    { YearWorld(YearResponse("response", 200,
                             <<District("Austin ISD", "/Austin_ISD"),
                               District("Dallas ISD", "")>>),
                DistrictResponse("response", 200, TwoCandidatePage, "fails"),
                NotFoundResponse),
      YearWorld(YearResponse("response", 404, <<>>), NotFoundResponse, NotFoundResponse),
      YearWorld(YearResponse("timeout", 200, <<>>), NotFoundResponse, NotFoundResponse),
      YearWorld(YearResponse("response", 200, <<District("Austin ISD", "/Austin_ISD")>>),
                TimeoutResponse, NotFoundResponse),
      YearWorld(YearResponse("response", 200, <<District("Austin ISD", "/Austin_ISD")>>),
                NotFoundResponse, NotFoundResponse) }

CliArgs ==
    [state : {"Texas"},
     start : 2012..2015,
     end : {NoEnd} \cup {EndYear(y) : y \in 2012..2015},
     current_year : {2014},
     worlds : [2013..2014 -> YearWorldPool]]

InitCli ==
    /\ cli_args \in CliArgs
    /\ cli_year = 0
    /\ all_districts = <<>>
    /\ all_cands = <<>>
    /\ cli_files = {}
    /\ cli_exit = -1
    /\ cli_pc = "parse"
    /\ InitOthersIdleCli

end_year == IF cli_args.end.given THEN cli_args.end.v ELSE cli_args.start

effective_start ==
    IF cli_args.start > _FIRST_AVAILABLE_YEAR THEN cli_args.start
    ELSE _FIRST_AVAILABLE_YEAR

effective_end ==
    IF end_year < cli_args.current_year THEN end_year ELSE cli_args.current_year

\* The response to the year page of year y, asked for with --state.
YearEnvOf(y) ==
    [cli_args.worlds[y].year_env EXCEPT !.year = y, !.state = cli_args.state]

\* scrape_with_results(year): the district rows of the year, then the page of
\* each district that has a URL; any _get_html that raises ends it.
ScrapeWithResultsRaises(y) ==
    \/ GetHtmlRaisesError(YearEnvOf(y))
    \/ \E i \in 1..Len(ScrapeYearRows(YearEnvOf(y))) :
          DistrictRaises(cli_args.worlds[y].site, ScrapeYearRows(YearEnvOf(y))[i])

ScrapeWithResults(y) ==
    LET rows == ScrapeYearRows(YearEnvOf(y))
    IN  Concat([i \in 1..Len(rows) |-> DistrictResults(cli_args.worlds[y].site, rows[i])])

\* parser.error("--end must be >= --start"): exit status 2
CliParserError ==
    /\ cli_pc = "parse"
    /\ end_year < cli_args.start
    /\ cli_exit' = 2
    /\ cli_pc' = "exit"
    /\ UNCHANGED <<cli_args, cli_year, all_districts, all_cands, cli_files>>
    /\ UNCHANGED notCliVars

\* "No years to scrape in the available range": sys.exit(0)
CliNoYears ==
    /\ cli_pc = "parse"
    /\ end_year >= cli_args.start
    /\ effective_start > effective_end
    /\ cli_exit' = 0
    /\ cli_pc' = "exit"
    /\ UNCHANGED <<cli_args, cli_year, all_districts, all_cands, cli_files>>
    /\ UNCHANGED notCliVars

main ==
    /\ cli_pc = "parse"
    /\ end_year >= cli_args.start
    /\ effective_start <= effective_end
    /\ cli_year' = effective_start
    /\ cli_pc' = "districts"
    /\ UNCHANGED <<cli_args, all_districts, all_cands, cli_files, cli_exit>>
    /\ UNCHANGED notCliVars

\* Districts: one year whose scrape_year returns.
CliDistrictsYear ==
    /\ cli_pc = "districts" /\ cli_year <= effective_end
    /\ ~GetHtmlRaisesError(YearEnvOf(cli_year))
    /\ all_districts' = all_districts \o ScrapeYearRows(YearEnvOf(cli_year))
    /\ cli_year' = cli_year + 1
    /\ UNCHANGED <<cli_args, all_cands, cli_files, cli_exit, cli_pc>>
    /\ UNCHANGED notCliVars

\* Districts: one year whose scrape_year raises.  The loop has no try: the
\* exception leaves main and the interpreter exits with status 1.
CliDistrictsRaises ==
    /\ cli_pc = "districts" /\ cli_year <= effective_end
    /\ GetHtmlRaisesError(YearEnvOf(cli_year))
    /\ cli_exit' = 1
    /\ cli_pc' = "exit"
    /\ UNCHANGED <<cli_args, cli_year, all_districts, all_cands, cli_files>>
    /\ UNCHANGED notCliVars

CliDistrictsSaved ==
    /\ cli_pc = "districts" /\ cli_year > effective_end
    /\ cli_files' = cli_files \cup {"districts.csv"}
    /\ cli_year' = effective_start
    /\ cli_pc' = "candidates"
    /\ UNCHANGED <<cli_args, all_districts, all_cands, cli_exit>>
    /\ UNCHANGED notCliVars

CliCandidatesYear ==
    /\ cli_pc = "candidates" /\ cli_year <= effective_end
    /\ ~ScrapeWithResultsRaises(cli_year)
    /\ all_cands' = all_cands \o ScrapeWithResults(cli_year)
    /\ cli_year' = cli_year + 1
    /\ UNCHANGED <<cli_args, all_districts, cli_files, cli_exit, cli_pc>>
    /\ UNCHANGED notCliVars

\* except Exception as exc: print, and on to the next year
CliCandidatesError ==
    /\ cli_pc = "candidates" /\ cli_year <= effective_end
    /\ ScrapeWithResultsRaises(cli_year)
    /\ cli_year' = cli_year + 1
    /\ UNCHANGED <<cli_args, all_districts, all_cands, cli_files, cli_exit, cli_pc>>
    /\ UNCHANGED notCliVars

CliCandidatesSaved ==
    /\ cli_pc = "candidates" /\ cli_year > effective_end
    /\ cli_files' = cli_files \cup {"candidates.csv"}
    /\ cli_pc' = "joined"
    /\ UNCHANGED <<cli_args, cli_year, all_districts, all_cands, cli_exit>>
    /\ UNCHANGED notCliVars

CliJoinedSaved ==
    /\ cli_pc = "joined"
    /\ all_cands # <<>> /\ all_districts # <<>>
    /\ cli_files' = cli_files \cup {"joined.csv"}
    /\ cli_exit' = 0
    /\ cli_pc' = "exit"
    /\ UNCHANGED <<cli_args, cli_year, all_districts, all_cands>>
    /\ UNCHANGED notCliVars

\* "No candidates found - joined file not written."
CliJoinedSkipped ==
    /\ cli_pc = "joined"
    /\ ~(all_cands # <<>> /\ all_districts # <<>>)
    /\ cli_exit' = 0
    /\ cli_pc' = "exit"
    /\ UNCHANGED <<cli_args, cli_year, all_districts, all_cands, cli_files>>
    /\ UNCHANGED notCliVars

NextCli ==
    \/ CliParserError
    \/ CliNoYears
    \/ main
    \/ CliDistrictsYear
    \/ CliDistrictsRaises
    \/ CliDistrictsSaved
    \/ CliCandidatesYear
    \/ CliCandidatesError
    \/ CliCandidatesSaved
    \/ CliJoinedSaved
    \/ CliJoinedSkipped

SpecCli == InitCli /\ [][NextCli]_vars

\* The arguments are a configuration error.
ConfigurationError == end_year < cli_args.start

\* C15 (as stated): the run exits non-zero only on a configuration error,
\* and a run without one has written its districts and candidates files.
C15_NonZeroOnlyOnConfigurationError ==
    cli_pc = "exit" =>
        /\ cli_exit # 0 => ConfigurationError
        /\ (~ConfigurationError /\ effective_start <= effective_end) =>
               {"districts.csv", "candidates.csv"} \subseteq cli_files

\* C15 (the part that holds): once the districts phase is over, no failure of
\* a fetch ends the run; it exits 0 with both files written.
C15_CandidateFailuresTolerated ==
    (cli_pc = "exit" /\ "districts.csv" \in cli_files) =>
        (cli_exit = 0 /\ "candidates.csv" \in cli_files)

\* The first year gave districts, the GET of the second year's page timed
\* out: exit status 1 and no file.
C15_Witness ==
    /\ cli_pc = "exit" /\ cli_exit = 1 /\ ~ConfigurationError
    /\ all_districts # <<>> /\ cli_files = {}

\* A year failed in the candidates phase and the run still ended with 0.
C15_CandidateFailureReached ==
    /\ cli_pc = "exit" /\ cli_exit = 0
    /\ \E y \in effective_start..effective_end : ScrapeWithResultsRaises(y)

----------------------------------------------------------------------------
(* NorthCarolina: the state rollup of rows that carry a winner status      *)
(* aggregate.aggregate_county_to_state                                     *)

\* Most county-level rows of the frame the model explores.
MaxWonRows == 2

\* A frame with every required column and one more, winner_status, the
\* source's own statement of who won: per (county, contest, choice) the
\* total_votes and the status.
WonFrames ==
    UNION {[K -> [total_votes : {Num(n) : n \in 0..MaxVotes},
                  winner_status : {"Won", "Lost"}]] :
             K \in {S \in SUBSET AggKeys : Cardinality(S) <= MaxWonRows}}

InitWon ==
    /\ won_df \in WonFrames
    /\ won_out = <<>>
    /\ won_pc = "input"
    /\ InitOthersIdleWon

\* groupby(group_cols, dropna=False, as_index=False)[vote_cols]: the columns
\* of the frame that go into the rollup.
VoteColumnsOf(df) == [k \in DOMAIN df |-> df[k].total_votes]

\* aggregate_county_to_state on the frame: the required columns are there,
\* so nothing is raised.
AggregateWithWinnerStatus ==
    /\ won_pc = "input"
    /\ won_out' = StateRollup(VoteColumnsOf(won_df))
    /\ won_pc' = "done"
    /\ UNCHANGED won_df
    /\ UNCHANGED notWonVars

NextWon == AggregateWithWinnerStatus

SpecWon == InitWon /\ [][NextWon]_vars

\* The input rows of a state-level group.
WonRowsOf(g) == {k \in DOMAIN won_df : k.contest = g.contest /\ k.choice = g.choice}

\* C16 (as stated): a choice whose source rows all say "Won" is reported as a
\* winner, and one whose rows all say "Lost" as a loser, whatever the vote
\* totals are.
C16_OutcomeFollowsWinnerStatus ==
    won_pc = "done" =>
        \A g \in DOMAIN won_out :
            /\ (\A k \in WonRowsOf(g) : won_df[k].winner_status = "Won")
                   => won_out[g].contest_outcome \in {"Winner", "Tied Winner"}
            /\ (\A k \in WonRowsOf(g) : won_df[k].winner_status = "Lost")
                   => won_out[g].contest_outcome = "Loser"

\* Two choices of one contest: the one the source marks "Won" has fewer
\* votes and is reported "Loser", the one marked "Lost" is the "Winner".
C16_Witness ==
    /\ won_pc = "done"
    /\ \E g, h \in DOMAIN won_out :
          /\ g.contest = h.contest /\ g.choice # h.choice
          /\ \A k \in WonRowsOf(g) : won_df[k].winner_status = "Won"
          /\ \A k \in WonRowsOf(h) : won_df[k].winner_status = "Lost"
          /\ won_out[g].contest_outcome = "Loser"
          /\ won_out[h].contest_outcome = "Winner"

----------------------------------------------------------------------------
(* NorthCarolina: the pipeline over the discovered elections               *)
(* NcElectionPipeline.run, selection.select_elections                      *)

\* Election dates are day numbers 1..MaxNcDate.
MaxNcDate == 4

NoDate == [given |-> FALSE, v |-> 0]
Date(d) == [given |-> TRUE, v |-> d]

\* An election of the index: its date (its zip_url is told by it) and what
\* _scrape_one does for it, return a frame or raise.
NcElectionZip(d, scrape) == [election_date |-> d, scrape |-> scrape]

RECURSIVE SortedByDate(_)
SortedByDate(S) ==
    IF S = {} THEN <<>>
    ELSE LET e == CHOOSE e \in S : \A f \in S : e.election_date <= f.election_date
         IN  <<e>> \o SortedByDate(S \ {e})

\* discover_nc_results_zips: the elections of the index, sorted by date.
Discoveries ==
    { SortedByDate({NcElectionZip(d, f[d]) : d \in D}) :
        D \in SUBSET (1..MaxNcDate), f \in [1..MaxNcDate -> {"frame", "raises"}] }

\* The minimum supported date is a constant of a module the pipeline imports;
\* the model takes every value of it.
PipeInputs ==
    [discover : {"ok", "raises"},
     elections : Discoveries,
     start_date : {NoDate, Date(2), Date(3)},
     end_date : {NoDate, Date(2), Date(3)},
     min_supported : 1..MaxNcDate]

InitPipe ==
    /\ pipe_in \in PipeInputs
    /\ supported = <<>>
    /\ skipped = <<>>
    /\ pipe_i = 0
    /\ pipe_frames = <<>>
    /\ pipe_failed = <<>>
    /\ downloaded = {}
    /\ pipe_out = <<>>
    /\ pipe_pc = "input"
    /\ InitOthersIdlePipe

MinDate(elections) ==
    CHOOSE d \in {elections[k].election_date : k \in 1..Len(elections)} :
        \A k \in 1..Len(elections) : d <= elections[k].election_date

MaxDate(elections) ==
    CHOOSE d \in {elections[k].election_date : k \in 1..Len(elections)} :
        \A k \in 1..Len(elections) : d >= elections[k].election_date

\* select_elections: the bounds default to the first and last election.
SelectStart(in) ==
    IF in.start_date.given THEN in.start_date.v ELSE MinDate(in.elections)

SelectEnd(in) ==
    IF in.end_date.given THEN in.end_date.v ELSE MaxDate(in.elections)

SelectRaises(in) == in.elections # <<>> /\ SelectStart(in) > SelectEnd(in)

select_elections(in) ==
    IF in.elections = <<>> THEN <<>>
    ELSE SelectSeq(in.elections,
                   LAMBDA e : SelectStart(in) <= e.election_date
                              /\ e.election_date <= SelectEnd(in))

\* if ed < NC_MIN_SUPPORTED_ELECTION_DATE: skipped, else supported
BeforeMinimum_Never(ed, min_supported) == FALSE

BeforeMinimum(ed, min_supported) == ed < min_supported

\* The frame _scrape_one returns for an election: its rows, known here by the
\* election they were read from.
ScrapedFrame(e) == <<[election |-> e.election_date, row |-> 1],
                     [election |-> e.election_date, row |-> 2]>>

\* discover() raises (the index page is not served): run raises.
PipeDiscoverRaises ==
    /\ pipe_pc = "input"
    /\ pipe_in.discover = "raises"
    /\ pipe_pc' = "raised"
    /\ UNCHANGED <<pipe_in, supported, skipped, pipe_i, pipe_frames, pipe_failed,
                   downloaded, pipe_out>>
    /\ UNCHANGED notPipeVars

\* select_elections raises ValueError: start_date after end_date.
PipeSelectRaises ==
    /\ pipe_pc = "input"
    /\ pipe_in.discover = "ok"
    /\ SelectRaises(pipe_in)
    /\ pipe_pc' = "raised"
    /\ UNCHANGED <<pipe_in, supported, skipped, pipe_i, pipe_frames, pipe_failed,
                   downloaded, pipe_out>>
    /\ UNCHANGED notPipeVars

\* run, up to its loop over supported: the elections are discovered,
\* selected, and split by the minimum date.
run ==
    /\ pipe_pc = "input"
    /\ pipe_in.discover = "ok"
    /\ ~SelectRaises(pipe_in)
    /\ supported' = SelectSeq(select_elections(pipe_in),
                       LAMBDA e : ~BeforeMinimum(e.election_date, pipe_in.min_supported))
    /\ skipped' = SelectSeq(select_elections(pipe_in),
                       LAMBDA e : BeforeMinimum(e.election_date, pipe_in.min_supported))
    /\ pipe_pc' = "scrape"
    /\ UNCHANGED <<pipe_in, pipe_i, pipe_frames, pipe_failed, downloaded, pipe_out>>
    /\ UNCHANGED notPipeVars

\* frames.append(self._scrape_one(e))
PipeScraped ==
    /\ pipe_pc = "scrape" /\ pipe_i < Len(supported)
    /\ supported[pipe_i + 1].scrape = "frame"
    /\ downloaded' = downloaded \cup {supported[pipe_i + 1].election_date}
    /\ pipe_frames' = Append(pipe_frames, ScrapedFrame(supported[pipe_i + 1]))
    /\ pipe_i' = pipe_i + 1
    /\ UNCHANGED <<pipe_in, supported, skipped, pipe_failed, pipe_out, pipe_pc>>
    /\ UNCHANGED notPipeVars

\* except Exception as ex: failed.append((e, ex))
PipeScrapeFailed ==
    /\ pipe_pc = "scrape" /\ pipe_i < Len(supported)
    /\ supported[pipe_i + 1].scrape = "raises"
    /\ downloaded' = downloaded \cup {supported[pipe_i + 1].election_date}
    /\ pipe_failed' = Append(pipe_failed, supported[pipe_i + 1])
    /\ pipe_i' = pipe_i + 1
    /\ UNCHANGED <<pipe_in, supported, skipped, pipe_frames, pipe_out, pipe_pc>>
    /\ UNCHANGED notPipeVars

\* if not frames: return pd.DataFrame(columns=_CANONICAL_COLUMNS)
PipeReturnEmpty ==
    /\ pipe_pc = "scrape" /\ pipe_i = Len(supported)
    /\ pipe_frames = <<>>
    /\ pipe_out' = <<>>
    /\ pipe_pc' = "done"
    /\ UNCHANGED <<pipe_in, supported, skipped, pipe_i, pipe_frames, pipe_failed,
                   downloaded>>
    /\ UNCHANGED notPipeVars

\* pd.concat(frames, ignore_index=True)
PipeReturn ==
    /\ pipe_pc = "scrape" /\ pipe_i = Len(supported)
    /\ pipe_frames # <<>>
    /\ pipe_out' = Concat(pipe_frames)
    /\ pipe_pc' = "done"
    /\ UNCHANGED <<pipe_in, supported, skipped, pipe_i, pipe_frames, pipe_failed,
                   downloaded>>
    /\ UNCHANGED notPipeVars

NextPipe ==
    \/ PipeDiscoverRaises
    \/ PipeSelectRaises
    \/ run
    \/ PipeScraped
    \/ PipeScrapeFailed
    \/ PipeReturnEmpty
    \/ PipeReturn

SpecPipe == InitPipe /\ [][NextPipe]_vars

\* The elections of the index in the date range asked for.
InRange == select_elections(pipe_in)

----------------------------------------------------------------------------
(* ElectionStats: the thread pool of the parallel county build             *)
(* _fetch_and_parse_one_parallel, build_county_dataframe_parallel          *)

\* Most rows of state_df, and so most worker jobs, the model explores.
MaxParJobs == 3

ParRowPool ==
    { DetailRow(FALSE, "ok", WakePage),
      DetailRow(FALSE, "ok", NoTablePage),
      DetailRow(FALSE, "timeout", NoTablePage),
      DetailRow(TRUE, "ok", NoTablePage) }

ParInputs ==
    [has_state : {TRUE},
     candidate_id_map : {IdMap([n \in {"ADAMS"} |-> 11])},
     rows : SeqsUpTo(ParRowPool, MaxParJobs),
     max_workers : {1, 2}]

InitPar ==
    /\ par_df \in ParInputs
    /\ futures = <<>>
    /\ par_collected = {}
    /\ par_frames = <<>>
    /\ par_log = {}
    /\ par_result = <<>>
    /\ par_pc = "input"
    /\ InitOthersIdlePar

\* A future: not started, running in a worker thread, or done with the
\* value the worker returned (None, or a frame).
Future(state, is_none, frame) == [state |-> state, is_none |-> is_none, frame |-> frame]

\* The futures as_completed can yield to the caller: done, and not yet taken.
AsCompleted_BeforeDone(futs, collected) == DOMAIN futs \ collected

AsCompleted(futs, collected) ==
    {i \in DOMAIN futs : futs[i].state = "done"} \ collected

Running(futs) == {i \in DOMAIN futs : futs[i].state = "running"}

\* The jobs are listed and all submitted; without jobs an empty frame is
\* returned at once.
ParSubmitAll ==
    /\ par_pc = "input"
    /\ futures' = [i \in Jobs(par_df) |-> Future("pending", TRUE, <<>>)]
    /\ par_pc' = IF Jobs(par_df) = {} THEN "done" ELSE "pool"
    /\ UNCHANGED <<par_df, par_collected, par_frames, par_log, par_result>>
    /\ UNCHANGED notParVars

\* A free worker thread takes a pending job.
WorkerStarts ==
    /\ par_pc = "pool"
    /\ Cardinality(Running(futures)) < par_df.max_workers
    /\ \E i \in DOMAIN futures :
          /\ futures[i].state = "pending"
          /\ futures' = [futures EXCEPT ![i].state = "running"]
    /\ UNCHANGED <<par_df, par_collected, par_frames, par_log, par_result, par_pc>>
    /\ UNCHANGED notParVars

\* A worker returns the frame it parsed.
WorkerReturnsFrame ==
    /\ par_pc = "pool"
    /\ \E i \in Running(futures) :
          /\ ~JobFails(par_df, "parallel", i)
          /\ futures' = [futures EXCEPT
                            ![i] = Future("done", FALSE, JobFrame(par_df, "parallel", i))]
    /\ UNCHANGED <<par_df, par_collected, par_frames, par_log, par_result, par_pc>>
    /\ UNCHANGED notParVars

\* A worker ends in its except clause: it prints and returns None.
WorkerReturnsNone ==
    /\ par_pc = "pool"
    /\ \E i \in Running(futures) :
          /\ JobFails(par_df, "parallel", i)
          /\ futures' = [futures EXCEPT ![i] = Future("done", TRUE, <<>>)]
          /\ par_log' = par_log \cup {ErrorMessage(par_df, "parallel", i)}
    /\ UNCHANGED <<par_df, par_collected, par_frames, par_result, par_pc>>
    /\ UNCHANGED notParVars

\* The caller's loop: as_completed yields a finished future, fut.result() is
\* its value, appended when it is a frame that is not empty.
CallerCollects ==
    /\ par_pc = "pool"
    /\ \E i \in AsCompleted(futures, par_collected) :
          /\ par_frames' = IF ~futures[i].is_none
                           THEN Collected(par_frames, futures[i].frame)
                           ELSE par_frames
          /\ par_collected' = par_collected \cup {i}
    /\ UNCHANGED <<par_df, futures, par_log, par_result, par_pc>>
    /\ UNCHANGED notParVars

\* Every future was yielded: the pool is left and the frames concatenated.
ParReturn ==
    /\ par_pc = "pool"
    /\ par_collected = DOMAIN futures
    /\ par_result' = Concat(par_frames)
    /\ par_pc' = "done"
    /\ UNCHANGED <<par_df, futures, par_collected, par_frames, par_log>>
    /\ UNCHANGED notParVars

NextPar ==
    \/ ParSubmitAll
    \/ WorkerStarts
    \/ WorkerReturnsFrame
    \/ WorkerReturnsNone
    \/ CallerCollects
    \/ ParReturn

SpecPar == InitPar /\ [][NextPar]_vars

\* The jobs whose fetch and parse succeed, and the rows they parse: functions
\* of the input alone.
SucceededJobs == {i \in Jobs(par_df) : ~JobFails(par_df, "parallel", i)}

RowsOfSucceeded == UNION {Range(JobFrame(par_df, "parallel", i)) : i \in SucceededJobs}

RECURSIVE SumLen(_, _)
SumLen(df, S) ==
    IF S = {} THEN 0
    ELSE LET i == CHOOSE i \in S : TRUE
         IN  Len(JobFrame(df, "parallel", i)) + SumLen(df, S \ {i})

\* In every order of completion the returned rows are the rows of exactly the
\* succeeded jobs, each once, and every submitted job was collected.
ParResultIsUnionOfSucceeded ==
    par_pc = "done" =>
        /\ Range(par_result) = RowsOfSucceeded
        /\ Len(par_result) = SumLen(par_df, SucceededJobs)
        /\ par_collected = Jobs(par_df)
        /\ \A i \in Jobs(par_df) : futures[i].state = "done"

\* frames changes only in a step of the caller that takes a finished future
\* it had not taken before.
OnlyCallerAppends ==
    par_frames' # par_frames =>
        /\ futures' = futures
        /\ \E i \in DOMAIN futures :
              /\ futures[i].state = "done" /\ i \notin par_collected
              /\ par_collected' = par_collected \cup {i}

\* C20: for every interleaving and completion order of the workers,
\* build_county_dataframe_parallel returns the same set of rows, the union of
\* the parse results of exactly the jobs that succeeded; no worker step
\* changes the result list, the caller appends only the value of a finished
\* future, every submitted job is collected before the return, and a failed
\* worker leaves only its message.
C20_SameRowsInEveryInterleaving ==
    /\ [](ParResultIsUnionOfSucceeded)
    /\ [][OnlyCallerAppends]_vars

\* Three jobs, of which the third, finished and collected first, and the
\* first succeed and the second fails: the rows of both are returned.
C20_Witness ==
    /\ par_pc = "done"
    /\ Cardinality(Jobs(par_df)) = 3
    /\ Cardinality(SucceededJobs) = 2
    /\ Len(par_frames) = 2
    /\ par_frames[1] = JobFrame(par_df, "parallel", 3)
    /\ par_frames[2] = JobFrame(par_df, "parallel", 1)
    /\ par_log # {}

----------------------------------------------------------------------------
(* NorthCarolina: the header-repair ladder                                 *)
(* _norm_col, _header_overlap_ratio, _shift_columns_into_first_row,        *)
(* _ensure_expected_raw_layout                                             *)

\* Most columns of a raw frame, most data rows, and most columns of an era's
\* layout the model explores.
MaxHdrCols == 3
MaxHdrRows == 2
MaxLayoutCols == 5

\* str.lower() on the words of the column names.
LowerCol(w) ==
    CASE w = "County" -> "county"
      [] w = "COUNTY" -> "county"
      [] w = "Contest" -> "contest"
      [] w = "Name" -> "name"
      [] w = "Choice" -> "choice"
      [] w = "Total" -> "total"
      [] w = "Votes" -> "votes"
      [] w = "Precinct" -> "precinct"
      [] w = "Party" -> "party"
      [] w = "Election" -> "election"
      [] w = "Date" -> "date"
      [] w = "Type" -> "type"
      [] w = "ALAMANCE" -> "alamance"
      [] w = "WAKE" -> "wake"
      [] w = "GOVERNOR" -> "governor"
      [] w = "ADAMS" -> "adams"
      [] w = "BAKER" -> "baker"
      [] OTHER -> w

\* _WHITESPACE_RE.sub(" ", s): every run of whitespace becomes one space.
RECURSIVE CollapseWs(_)
CollapseWs(t) ==
    IF Len(t) < 2 THEN t
    ELSE IF t[1] = " " /\ t[2] = " " THEN CollapseWs(Tail(t))
    ELSE <<t[1]>> \o CollapseWs(Tail(t))

_norm_col(c) == CollapseWs([k \in 1..Len(Strip(c)) |-> LowerCol(Strip(c)[k])])

_normalized_tokens(objs) == [k \in 1..Len(objs) |-> _norm_col(objs[k])]

\* The column names of the eras: a layout is a prefix of this list.
EraColumns ==
    << <<"County">>, <<"Contest", " ", "Name">>, <<"Choice">>,
       <<"Total", " ", "Votes">>, <<"Precinct">>, <<"Choice", " ", "Party">>,
       <<"Election", " ", "Date">>, <<"Contest", " ", "Type">> >>

\* The same names as a file spells them, and two rows of data.
FileHeaderCells ==
    << <<" ", "COUNTY">>, <<"contest", " ", " ", "name">>, <<"Choice", " ">>,
       <<"total", " ", "votes">>, <<"PRECINCT">> >>

DataCellsA == << <<"ALAMANCE">>, <<"GOVERNOR">>, <<"ADAMS">>, <<"12">>, <<"01">> >>
DataCellsB == << <<"WAKE">>, <<"GOVERNOR">>, <<"BAKER">>, <<"7">>, <<"02">> >>

\* str(c) of an integer column label.
IntLabels == << <<"0">>, <<"1">>, <<"2">>, <<"3">>, <<"4">> >>

RowKinds == {"H", "Hrev", "H2", "H1", "DA", "DB"}

\* A row (or a row of labels) of width w: the header in file order, the
\* header reversed, two or one header names followed by data, or data.
RowOf(kind, w) ==
    [j \in 1..w |->
        CASE kind = "H" -> FileHeaderCells[j]
          [] kind = "Hrev" -> FileHeaderCells[w + 1 - j]
          [] kind = "H2" -> IF j <= 2 THEN FileHeaderCells[j] ELSE DataCellsA[j]
          [] kind = "H1" -> IF j <= 1 THEN FileHeaderCells[j] ELSE DataCellsA[j]
          [] kind = "DA" -> DataCellsA[j]
          [] OTHER -> DataCellsB[j]]

RawFrame(int_columns, columns, rows) ==
    [int_columns |-> int_columns, columns |-> columns, rows |-> rows]

\* The frames: read with header=None (integer labels) or with a header row;
\* every row has one cell per column.
RawFrames ==
    UNION {
        {RawFrame(TRUE, SubSeq(IntLabels, 1, w), [k \in 1..Len(ks) |-> RowOf(ks[k], w)])
            : ks \in SeqsUpTo(RowKinds, MaxHdrRows)}
        \cup
        {RawFrame(FALSE, RowOf(ck, w), [k \in 1..Len(ks) |-> RowOf(ks[k], w)])
            : ck \in RowKinds, ks \in SeqsUpTo(RowKinds, MaxHdrRows)}
        : w \in 0..MaxHdrCols}

Layouts == {SubSeq(EraColumns, 1, n) : n \in 0..MaxLayoutCols}

HdrInputs == [df : RawFrames, expected : Layouts]

OutFrame(raised, columns, rows) == [raised |-> raised, columns |-> columns, rows |-> rows]

InitHdr ==
    /\ hdr_df \in HdrInputs
    /\ hdr_out = OutFrame(FALSE, <<>>, <<>>)
    /\ hdr_pc = "input"
    /\ InitOthersIdleHdr

\* all(isinstance(c, int) for c in df.columns): true of a frame without columns.
_is_int_columns(df) == df.int_columns \/ df.columns = <<>>

\* DataFrame.empty: no rows or no columns.
HdrEmpty(df) == df.rows = <<>> \/ df.columns = <<>>

\* 0.6 as a fraction.
threshold == [num |-> 6, den |-> 10]

\* len(exp & got) / len(exp) as a fraction; 0.0 when exp is empty.
_header_overlap_ratio(tokens, expected) ==
    LET exp == Range(_normalized_tokens(expected))
        got == Range(tokens)
    IN  IF exp = {} THEN [num |-> 0, den |-> 1]
        ELSE [num |-> Cardinality(exp \cap got), den |-> Cardinality(exp)]

\* ratio >= threshold
AtLeast(ratio, t) == ratio.num * t.den >= t.num * ratio.den

_df_columns_look_like_expected_header(df, expected_cols) ==
    AtLeast(_header_overlap_ratio(_normalized_tokens(df.columns), expected_cols), threshold)

_first_row_looks_like_expected_header(df, expected_cols) ==
    IF HdrEmpty(df) THEN FALSE
    ELSE AtLeast(_header_overlap_ratio(_normalized_tokens(df.rows[1]), expected_cols), threshold)

\* out.columns = names: pandas raises ValueError when names has not one
\* entry per column.
SetColumns(df_rows, width, names) ==
    IF Len(names) # width THEN OutFrame(TRUE, <<>>, <<>>)
    ELSE OutFrame(FALSE, names, df_rows)

\* expected[: n]
Prefix(expected, n) == SubSeq(expected, 1, IF n < Len(expected) THEN n ELSE Len(expected))

\* Rung A: the frame was read with header=None.
EnsureIntColumns ==
    /\ hdr_pc = "input"
    /\ _is_int_columns(hdr_df.df)
    /\ hdr_out' = SetColumns(hdr_df.df.rows, Len(hdr_df.df.columns),
                             Prefix(hdr_df.expected, Len(hdr_df.df.columns)))
    /\ hdr_pc' = "A"
    /\ UNCHANGED hdr_df
    /\ UNCHANGED notHdrVars

\* Rung B: the labels look like the expected header.
EnsureColumnsMatch ==
    /\ hdr_pc = "input"
    /\ ~_is_int_columns(hdr_df.df)
    /\ _df_columns_look_like_expected_header(hdr_df.df, hdr_df.expected)
    /\ hdr_out' = IF Len(hdr_df.df.columns) = Len(hdr_df.expected)
                  THEN OutFrame(FALSE, hdr_df.expected, hdr_df.df.rows)
                  ELSE OutFrame(FALSE, hdr_df.df.columns, hdr_df.df.rows)
    /\ hdr_pc' = "B"
    /\ UNCHANGED hdr_df
    /\ UNCHANGED notHdrVars

\* Rung C: the first row is the header.
EnsureFirstRowHeader ==
    /\ hdr_pc = "input"
    /\ ~_is_int_columns(hdr_df.df)
    /\ ~_df_columns_look_like_expected_header(hdr_df.df, hdr_df.expected)
    /\ _first_row_looks_like_expected_header(hdr_df.df, hdr_df.expected)
    /\ hdr_out' = SetColumns(Tail(hdr_df.df.rows), Len(hdr_df.df.columns),
                             Prefix(hdr_df.expected, Len(hdr_df.df.columns)))
    /\ hdr_pc' = "C"
    /\ UNCHANGED hdr_df
    /\ UNCHANGED notHdrVars

\* Rung D: the labels are taken for the first data row.
_shift_columns_into_first_row ==
    /\ hdr_pc = "input"
    /\ ~_is_int_columns(hdr_df.df)
    /\ ~_df_columns_look_like_expected_header(hdr_df.df, hdr_df.expected)
    /\ ~_first_row_looks_like_expected_header(hdr_df.df, hdr_df.expected)
    /\ Len(hdr_df.df.columns) = Len(hdr_df.expected)
    /\ hdr_out' = SetColumns(<<hdr_df.df.columns>> \o hdr_df.df.rows,
                             Len(hdr_df.df.columns),
                             Prefix(hdr_df.expected, Len(hdr_df.df.columns)))
    /\ hdr_pc' = "D"
    /\ UNCHANGED hdr_df
    /\ UNCHANGED notHdrVars

\* Rung E: the names are assigned by position.
_ensure_expected_raw_layout ==
    /\ hdr_pc = "input"
    /\ ~_is_int_columns(hdr_df.df)
    /\ ~_df_columns_look_like_expected_header(hdr_df.df, hdr_df.expected)
    /\ ~_first_row_looks_like_expected_header(hdr_df.df, hdr_df.expected)
    /\ Len(hdr_df.df.columns) # Len(hdr_df.expected)
    /\ hdr_out' = SetColumns(hdr_df.df.rows, Len(hdr_df.df.columns),
                             Prefix(hdr_df.expected, Len(hdr_df.df.columns)))
    /\ hdr_pc' = "E"
    /\ UNCHANGED hdr_df
    /\ UNCHANGED notHdrVars

NextHdr ==
    \/ EnsureIntColumns
    \/ EnsureColumnsMatch
    \/ EnsureFirstRowHeader
    \/ _shift_columns_into_first_row
    \/ _ensure_expected_raw_layout

SpecHdr == InitHdr /\ [][NextHdr]_vars

\* The expected names (by position in the layout) that occur, normalized,
\* among the normalized cells of a candidate; and the 60% test on them.
HdrMatching(cand, expected) ==
    {k \in 1..Len(expected) :
        \E j \in 1..Len(cand) : _norm_col(cand[j]) = _norm_col(expected[k])}

SixtyPercent(cand, expected) ==
    /\ expected # <<>>
    /\ 5 * Cardinality(HdrMatching(cand, expected)) >= 3 * Len(expected)

FirstRowQualifies ==
    /\ ~HdrEmpty(hdr_df.df)
    /\ SixtyPercent(hdr_df.df.rows[1], hdr_df.expected)

\* C21: a header candidate, first the column labels and then the first row,
\* is accepted as the era's header exactly when at least 60% of the expected
\* column names occur among its tokens; the first row of an empty frame and
\* an empty expected list never qualify.
C21_AcceptedExactlyAtSixtyPercent ==
    hdr_pc # "input" =>
        /\ hdr_pc = "B" <=> SixtyPercent(hdr_df.df.columns, hdr_df.expected)
        /\ hdr_pc = "C" <=>
               (~SixtyPercent(hdr_df.df.columns, hdr_df.expected) /\ FirstRowQualifies)

\* C21, for the frames read with a header row: the labels are accepted exactly
\* at 60%, and so is the first row once the labels were not.
C21_AcceptedAtSixtyPercentWithLabels ==
    (hdr_pc # "input" /\ ~hdr_df.df.int_columns) =>
        /\ hdr_pc = "B" <=> SixtyPercent(hdr_df.df.columns, hdr_df.expected)
        /\ hdr_pc = "C" <=>
               (~SixtyPercent(hdr_df.df.columns, hdr_df.expected) /\ FirstRowQualifies)

\* A frame read with header=None whose first row holds every name of the
\* layout: the row is not taken for the header and stays among the data.
C21_Witness ==
    /\ hdr_pc = "A"
    /\ hdr_df.df.int_columns
    /\ Len(hdr_df.expected) = Len(hdr_df.df.columns)
    /\ hdr_df.df.rows # <<>>
    /\ Cardinality(HdrMatching(hdr_df.df.rows[1], hdr_df.expected)) = Len(hdr_df.expected)
    /\ ~hdr_out.raised
    /\ hdr_out.rows = hdr_df.df.rows

\* C27: the ladder returns the rows minus the first when the first row is the
\* header, the rows preceded by the former labels when nothing matches and
\* the column count is the layout's, and the rows unchanged in every other
\* case; with the layout's column count and other names, the era's names are
\* the columns of the result.
C27_RowsKeptOnEveryRung ==
    hdr_pc # "input" =>
        /\ ~hdr_out.raised
        /\ hdr_pc = "C" => hdr_out.rows = Tail(hdr_df.df.rows)
        /\ hdr_pc = "D" => hdr_out.rows = <<hdr_df.df.columns>> \o hdr_df.df.rows
        /\ hdr_pc \in {"A", "B", "E"} => hdr_out.rows = hdr_df.df.rows
        /\ Len(hdr_df.df.columns) = Len(hdr_df.expected) => hdr_out.columns = hdr_df.expected

\* C27, for a frame with at most as many columns as the layout names: the
\* same; a frame with more columns makes rungs A, C and E raise.
C27_RowsKeptWhenLayoutCoversColumns ==
    hdr_pc # "input" =>
        /\ hdr_out.raised <=>
               (hdr_pc \in {"A", "C", "E"} /\ Len(hdr_df.df.columns) > Len(hdr_df.expected))
        /\ ~hdr_out.raised =>
               /\ hdr_pc = "C" => hdr_out.rows = Tail(hdr_df.df.rows)
               /\ hdr_pc = "D" => hdr_out.rows = <<hdr_df.df.columns>> \o hdr_df.df.rows
               /\ hdr_pc \in {"A", "B", "E"} => hdr_out.rows = hdr_df.df.rows
               /\ Len(hdr_df.df.columns) = Len(hdr_df.expected)
                      => hdr_out.columns = hdr_df.expected
               /\ hdr_pc # "B" =>
                      hdr_out.columns = Prefix(hdr_df.expected, Len(hdr_df.df.columns))

\* A frame of data rows with one column more than the layout names, whose
\* labels and first row are not the header: the last rung raises.
C27_Witness ==
    /\ hdr_pc = "E"
    /\ hdr_out.raised
    /\ hdr_df.df.rows # <<>>
    /\ Len(hdr_df.df.columns) = Len(hdr_df.expected) + 1

----------------------------------------------------------------------------
(* Ballotpedia: the fields of a district row                               *)
(* SchoolBoardScraper._cell_text, _parse_year_page, SchoolBoardElectionRow *)

\* Most header cells, and most cells of a data row, the model explores.
MaxYrCols == 3

YrHeaderPool ==
    {<<"District">>, <<"Primary">>, <<"General", "Election">>,
     <<"Term", "Length">>, <<"Enrollment">>}

\* A <td>: its text and, when it holds a link, the link's text and href.
Td(text, has_link, link_text, href) ==
    [text |-> text, has_link |-> has_link, link_text |-> link_text, href |-> href]

EmptyTd == Td(<<>>, FALSE, <<>>, "")
SpaceTd == Td(<<" ", " ">>, FALSE, <<>>, "")
DateTd == Td(<<" ", "5/10/2014", " ">>, FALSE, <<>>, "")
DashTd == Td(<<"-">>, FALSE, <<>>, "")
LinkTd == Td(<<"Austin", " ", "ISD">>, TRUE, <<"Austin", " ", "ISD">>, "/Austin_ISD")

TdPool == {EmptyTd, SpaceTd, DateTd, DashTd, LinkTd}

YrTables ==
    [headers : SeqsUpTo(YrHeaderPool, MaxYrCols),
     tds : SeqsUpTo(TdPool, MaxYrCols),
     year : {2014},
     state_name : {"Texas"}]

InitYr ==
    /\ yr_table \in YrTables
    /\ yr_rows = <<>>
    /\ yr_pc = "input"
    /\ InitOthersIdleYr

\* re.sub(r"\s+", " ", text).strip()
_clean(text) == Strip(CollapseWs(text))

\* _cell_text(td): the cleaned text, "-" when it is empty.
_cell_text(cell) == IF _clean(cell.text) = <<>> THEN <<"-">> ELSE _clean(cell.text)

\* _col(idx): "-" for a column that was not found or lies beyond the row.
_col(idx, tds) ==
    IF idx = None \/ idx >= Len(tds) THEN <<"-">> ELSE _cell_text(tds[idx + 1])

\* A <tr> without <td> gives no row.
YrSkipRow ==
    /\ yr_pc = "input"
    /\ yr_table.tds = <<>>
    /\ yr_rows' = <<>>
    /\ yr_pc' = "done"
    /\ UNCHANGED yr_table
    /\ UNCHANGED notYrVars

\* One data row of the table becomes one SchoolBoardElectionRow.
ParseYearRow ==
    /\ yr_pc = "input"
    /\ yr_table.tds # <<>>
    /\ LET tds == yr_table.tds
           idx == ResolveColumns(yr_table.headers)
       IN  yr_rows' =
             << [year |-> yr_table.year,
                 state |-> yr_table.state_name,
                 district |-> IF tds[1].has_link THEN _clean(tds[1].link_text)
                              ELSE _cell_text(tds[1]),
                 district_url |-> IF tds[1].has_link
                                  THEN "https://ballotpedia.org" \o tds[1].href
                                  ELSE "",
                 primary |-> _col(idx.primary_idx, tds),
                 primary_runoff |-> _col(idx.primary_runoff_idx, tds),
                 general_election |-> _col(idx.general_idx, tds),
                 general_runoff |-> _col(idx.general_runoff_idx, tds),
                 term_length |-> _col(idx.term_length_idx, tds),
                 seats_up |-> _col(idx.seats_up_idx, tds),
                 total_board_seats |-> _col(idx.total_seats_idx, tds),
                 enrollment |-> _col(idx.enrollment_idx, tds)] >>
    /\ yr_pc' = "done"
    /\ UNCHANGED yr_table
    /\ UNCHANGED notYrVars

NextYr ==
    \/ YrSkipRow
    \/ ParseYearRow

SpecYr == InitYr /\ [][NextYr]_vars

\* The fields of a row and the resolved index of each one's column.
YrFields ==
    {"primary", "primary_runoff", "general_election", "general_runoff",
     "term_length", "seats_up", "total_board_seats", "enrollment"}

YrIndexOf(f) ==
    LET idx == ResolveColumns(yr_table.headers)
    IN  CASE f = "primary" -> idx.primary_idx
          [] f = "primary_runoff" -> idx.primary_runoff_idx
          [] f = "general_election" -> idx.general_idx
          [] f = "general_runoff" -> idx.general_runoff_idx
          [] f = "term_length" -> idx.term_length_idx
          [] f = "seats_up" -> idx.seats_up_idx
          [] f = "total_board_seats" -> idx.total_seats_idx
          [] OTHER -> idx.enrollment_idx

\* The column of f is in the header and its cell in the row is empty.
PresentButEmpty(f) ==
    /\ YrIndexOf(f) # None
    /\ YrIndexOf(f) < Len(yr_table.tds)
    /\ _clean(yr_table.tds[YrIndexOf(f) + 1].text) = <<>>

\* C22: in every district row, a field whose column is absent from the table
\* header has a value different from the "-" of a column that is present but
\* empty, so present with value, present but empty and absent can be told
\* apart.
C22_AbsentDiffersFromEmpty ==
    (yr_pc = "done" /\ yr_rows # <<>>) =>
        \A f \in YrFields :
            /\ YrIndexOf(f) = None => yr_rows[1][f] # <<"-">>
            /\ PresentButEmpty(f) => yr_rows[1][f] = <<"-">>

\* What holds: absent, beyond the row and present but empty all give "-".
C22_AbsentAndEmptyBothDash ==
    (yr_pc = "done" /\ yr_rows # <<>>) =>
        \A f \in YrFields :
            (YrIndexOf(f) = None \/ YrIndexOf(f) >= Len(yr_table.tds) \/ PresentButEmpty(f))
                => yr_rows[1][f] = <<"-">>

\* A row whose table has a Primary column with an empty cell and no
\* Enrollment column: both fields read "-".
C22_Witness ==
    /\ yr_pc = "done" /\ yr_rows # <<>>
    /\ PresentButEmpty("primary")
    /\ YrIndexOf("enrollment") = None
    /\ yr_rows[1].primary = yr_rows[1].enrollment

----------------------------------------------------------------------------
(* ElectionStats: iter_search_results, its fetches and what it yields      *)

\* No two of the rows yielded so far have the same key.
YieldedKeysDistinct ==
    \A i, j \in 1..Len(it_yielded) :
        i < j => RowKey(it_yielded[i]) # RowKey(it_yielded[j])

\* A turn whose page is empty or has no key not seen before ends the loop.
IterEndsAtStalePage ==
    (/\ it_pc = "loop" /\ it_iter < it_site.max_pages
     /\ ~GetHtmlRaises(PageAt(it_site, it_page))
     /\ NewRows(SearchRowsOf(PageAt(it_site, it_page), it_page), seen_keys) = <<>>
     /\ it_iter' = it_iter + 1)
        => it_pc' = "done"

\* The k-th fetch asks for page start_page + k - 1, and there are at most
\* max_pages fetches: while the loop runs, page = start_page + turns taken.
FetchesBoundedAndAscending ==
    /\ it_iter <= it_site.max_pages
    /\ it_pc = "loop" => it_page = it_site.start_page + it_iter
    /\ it_pc \in {"done", "raised"} => it_page < it_site.start_page + it_site.max_pages + 1

\* C23: for any sequence of page responses iter_search_results makes at most
\* max_pages fetches, of pages in increasing number from start_page, ends at
\* the first page that is empty or has no key not seen before, and never
\* yields two rows with the same (election_id, candidate_id) key.
C23_BoundedAscendingAndNeverTheSameKeyTwice ==
    /\ [](FetchesBoundedAndAscending /\ YieldedKeysDistinct)
    /\ [][IterEndsAtStalePage]_vars

\* C23, as the loop has it: the fetches are bounded and ascending, the loop
\* ends at a stale page, and two yielded rows with the same key come from
\* the same page.
C23_SameKeyOnlyWithinOnePage ==
    /\ [](FetchesBoundedAndAscending
          /\ \A i, j \in 1..Len(it_yielded) :
                 RowKey(it_yielded[i]) = RowKey(it_yielded[j])
                     => it_yielded[i].page = it_yielded[j].page)
    /\ [][IterEndsAtStalePage]_vars

\* A page that lists one contest twice: both rows were yielded.
C23_Witness ==
    /\ it_pc = "done"
    /\ \E i, j \in 1..Len(it_yielded) :
          /\ i < j
          /\ RowKey(it_yielded[i]) = RowKey(it_yielded[j])
          /\ it_yielded[i].page = it_yielded[j].page

----------------------------------------------------------------------------
(* Ballotpedia: the candidate records of a votebox                         *)
(* SchoolBoardScraper._parse_district_page, format A                       *)

\* Most results rows of a votebox the model explores.
MaxVbRows == 2

\* The text of a div.percentage_number.
PctPool ==
    { <<"6", "2", ".", "5", "%">>, <<"5", "0", ".", "1", "%">>,
      <<"5", "0", ".", "0", "%">>, <<"5", "0", "%">>,
      <<"4", "9", ".", "9", "%">>, <<" ", "7", "1", "%", " ">>,
      <<"n", "/", "a">>, <<>> }

\* A tr.results_row: its class tokens, whether it has a text cell, the
\* candidate name of that cell and the text of its percentage div.
VbRow(cls, has_text_cell, candidate, pct) ==
    [cls |-> cls, has_text_cell |-> has_text_cell, candidate |-> candidate, pct |-> pct]

VbRowPool ==
    {VbRow(c, t, n, p) :
        c \in {{"results_row"}, {"results_row", "winner"}},
        t \in BOOLEAN, n \in {"Ann Adams", ""}, p \in PctPool}

InitVb ==
    /\ vb_box \in SeqsUpTo(VbRowPool, MaxVbRows)
    /\ vb_out = <<>>
    /\ vb_pc = "input"
    /\ InitOthersIdleVb

\* is_winner = "winner" in (tr.get("class") or "")
VbIsWinner(tr) == "winner" \in tr.cls

\* The record of one results row; tr_index keeps the row it came from.
VbRecord(tr, k) ==
    [tr_index |-> k,
     candidate |-> tr.candidate,
     is_winner |-> VbIsWinner(tr),
     pct |-> RStripSet(LStripSet(tr.pct, {" "}), {" "})]

VbKept(trs) == {k \in 1..Len(trs) : trs[k].has_text_cell /\ trs[k].candidate # ""}

RECURSIVE VbRecordsFrom(_, _)
VbRecordsFrom(trs, k) ==
    IF k > Len(trs) THEN <<>>
    ELSE (IF k \in VbKept(trs) THEN <<VbRecord(trs[k], k)>> ELSE <<>>)
             \o VbRecordsFrom(trs, k + 1)

\* The rows of the votebox in order: a row without text cell or without a
\* name is skipped, every other row gives one record.
ParseVotebox ==
    /\ vb_pc = "input"
    /\ vb_out' = VbRecordsFrom(vb_box, 1)
    /\ vb_pc' = "done"
    /\ UNCHANGED vb_box
    /\ UNCHANGED notVbVars

NextVb == ParseVotebox

SpecVb == InitVb /\ [][NextVb]_vars

\* C24: in every extraction style, a record whose percentage parses to more
\* than 50 and whose row has no winner marker is labelled a winner; a
\* percentage of 50 or below, or one that does not parse, leaves the outcome
\* of the marker.
C24_Over50WithoutMarkerIsWinner ==
    vb_pc = "done" =>
        \A k \in 1..Len(vb_out) :
            LET tr == vb_box[vb_out[k].tr_index]
            IN  vb_out[k].is_winner <=>
                    (VbIsWinner(tr) \/ Over50(_parse_percentage(tr.pct)))

\* What the votebox extraction does: is_winner is the marker, whatever the
\* percentage, and the percentage text is kept.
C24_VoteboxWinnerIsMarkerOnly ==
    vb_pc = "done" =>
        /\ {vb_out[k].tr_index : k \in 1..Len(vb_out)} = VbKept(vb_box)
        /\ \A k \in 1..Len(vb_out) :
               vb_out[k].is_winner <=> VbIsWinner(vb_box[vb_out[k].tr_index])

\* A votebox row without the winner class and with 62.5%: its record is not
\* a winner.
C24_Witness ==
    /\ vb_pc = "done"
    /\ \E k \in 1..Len(vb_out) :
          /\ ~VbIsWinner(vb_box[vb_out[k].tr_index])
          /\ Over50(_parse_percentage(vb_out[k].pct))
          /\ ~vb_out[k].is_winner

----------------------------------------------------------------------------
(* Ballotpedia: what the cell traversal skips                              *)

\* The kinds of node the claim names, read off the node itself.
NonCandidateLink(child) ==
    child.tag = "a" /\ (child.target = "_blank" \/ child.href.frag = "#Campaign_themes")

EmptyNameLink(child) ==
    child.tag = "a" /\ Strip(RStripTok(Strip(child.text), "*")) = <<>>

ValidLink(child) ==
    child.tag = "a" /\ ~NonCandidateLink(child) /\ ~EmptyNameLink(child)

SilentNode(child) ==
    NonCandidateLink(child) \/ EmptyNameLink(child) \/ child.tag \notin {"img", "a"}

WinnerMarker(child) == child.tag = "img" /\ IsCheckAlt(child.alt)

\* A step over a silent node, or over a marker while the flag is already
\* set, leaves the records and the flag as they were.
SilentStepKeepsFlag ==
    (child_i' = child_i + 1 /\ child_i < Len(Children(td))) =>
        LET child == Children(td)[child_i + 1]
        IN  /\ SilentNode(child) =>
                  (results' = results /\ pending_winner' = pending_winner)
            /\ (WinnerMarker(child) /\ pending_winner) =>
                  (results' = results /\ pending_winner' = pending_winner)

\* The record of the valid link at position p is the winner exactly when a
\* marker precedes it with no valid link in between, whatever else lies
\* between them.
MarkerReachesNextValidLink ==
    LET ch == Children(td)
    IN  \A p \in 1..child_i :
            ValidLink(ch[p]) =>
                LET k == Cardinality({q \in 1..p : ValidLink(ch[q])})
                IN  /\ k <= Len(results)
                    /\ results[k].is_winner <=>
                           \E m \in 1..(p - 1) :
                               /\ WinnerMarker(ch[m])
                               /\ \A q \in (m + 1)..(p - 1) : ~ValidLink(ch[q])

\* C25: a link to a non-candidate target, a link with an empty name and every
\* node that is neither image nor link emit no record and leave the
\* pending-winner flag unchanged; repeated markers are as one, so a marker
\* followed by any number of such nodes and then a valid candidate link marks
\* exactly that candidate as winner.
C25_SkippedNodesKeepThePendingFlag ==
    /\ [][SilentStepKeepsFlag]_vars
    /\ [](MarkerReachesNextValidLink /\ Len(results) <= child_i)

\* Two markers, a survey link, then Jane Doe: one record, the winner.
C25_Witness ==
    /\ child_i = 4
    /\ WinnerMarker(Children(td)[1]) /\ WinnerMarker(Children(td)[2])
    /\ NonCandidateLink(Children(td)[3])
    /\ ValidLink(Children(td)[4])
    /\ Len(results) = 1
    /\ results[1].is_winner
    /\ ~pending_winner

----------------------------------------------------------------------------
(* ElectionStats: the rows of one election's locality table                *)

\* No two rows of the frame have the same locality and candidate name (the
\* election_id is that of the call in every row).
LocKeysDistinct ==
    \A i, j \in 1..Len(loc_out) :
        i < j => <<loc_out[i].county_or_city, loc_out[i].candidate_name>>
                     # <<loc_out[j].county_or_city, loc_out[j].candidate_name>>

\* C26: the locality vote table parsed from one election's detail page has at
\* most one row per (election_id, county_or_city, candidate_name), for every
\* page the parser accepts, also with Ward/Pct/Precinct columns, repeated
\* locality rows or repeated candidate header names.
C26_OneRowPerLocalityAndCandidate ==
    loc_pc = "classic_done" => LocKeysDistinct

\* What holds: one row per locality row of the table and candidate column
\* with an integer and a mapped name, so as many rows as there are such cells.
C26_OneRowPerTableCell ==
    loc_pc = "classic_done" =>
        LET names == loc_page.candidate_names
            idmap == EffectiveMap(loc_call.candidate_id_map, names)
            cells == {<<i, k>> \in (1..Len(loc_page.rows)) \X (1..Len(names)) :
                         /\ loc_page.rows[i].county \notin {"", "Totals"}
                         /\ Len(loc_page.rows[i].cells) >= Len(names)
                         /\ names[k] \in DOMAIN idmap
                         /\ ~_parse_int(VoteTds(loc_page.rows[i].cells, Len(names)).tds[k]).na}
        IN  Len(loc_out) = Cardinality(cells)

\* Two rows of the table for Wake (two wards or precincts of it), one
\* candidate: the frame has two rows for (Wake, that candidate).
C26_Witness ==
    /\ loc_pc = "classic_done"
    /\ Len(loc_page.rows) = 2
    /\ loc_page.rows[1].county = "Wake" /\ loc_page.rows[2].county = "Wake"
    /\ Len(loc_page.candidate_names) = 1
    /\ Len(loc_out) = 2
    /\ loc_out[1].candidate_name = loc_out[2].candidate_name
    /\ loc_out[1].county_or_city = loc_out[2].county_or_city

(***************************************************************************)
(* ElectionStats: one invocation of run_scrape_yearly                      *)
(* scrape_one_year (requests path) followed by _join_county_with_state:    *)
(* the statewide rows number the candidates of each search row, the county *)
(* rows number the candidate columns of each detail table, and the join    *)
(* pairs the two numberings.                                               *)

\* Most elections the search of one invocation returns.
MaxInvElections == 2
\* Most locality rows of one detail table.
MaxInvCounties == 2

InvCountyNames == <<"Wise", "York", "Lee">>

\* candidate_rows of a search row: (candidate_name, ..., contest_outcome), in
\* the order of the nested candidates table
InvCandidateLists ==
    { <<>>,
      <<[name |-> "ADAMS", outcome |-> "Won"]>>,
      <<[name |-> "ADAMS", outcome |-> "Won"], [name |-> "BAKER", outcome |-> "Lost"]>>,
      <<[name |-> "BAKER", outcome |-> "Won"], [name |-> "ADAMS", outcome |-> "Lost"]>> }

\* candidate_names of a detail table: its header cells, left to right
InvHeaders ==
    { <<>>, <<"ADAMS">>, <<"BAKER">>, <<"ADAMS", "BAKER">>, <<"BAKER", "ADAMS">> }

\* The locality rows of a detail table; every vote cell holds an integer.
InvDetailRows(header, n) ==
    [k \in 1..n |->
        [county |-> InvCountyNames[k],
         cells |-> [j \in 1..Len(header) |-> 10 * k + j]]]

InvElection(election_id, candidate_rows, header, n) ==
    [election_id |-> election_id, candidate_rows |-> candidate_rows,
     candidate_names |-> header, rows |-> InvDetailRows(header, n)]

InvSites ==
    UNION { { s \in [1..m -> [candidate_rows : InvCandidateLists,
                              candidate_names : InvHeaders,
                              n : 1..MaxInvCounties]] : TRUE }
            : m \in 1..MaxInvElections }

InitInv ==
    /\ \E s \in InvSites :
          inv_site = [i \in 1..Len(s) |->
                         InvElection(i, s[i].candidate_rows, s[i].candidate_names, s[i].n)]
    /\ inv_state = <<>>
    /\ inv_county = <<>>
    /\ inv_joined = <<>>
    /\ inv_pc = "input"
    /\ InitOthersIdleInv

\* parse_search_results over one search row: a row without candidates is
\* skipped, the others give one ElectionSearchRow per candidate, numbered by
\* enumerate(candidate_rows, start=1)
InvSearchRows(e) ==
    [j \in 1..Len(e.candidate_rows) |->
        StateRow("virginia", e.election_id, CandidateId(j),
                 e.candidate_rows[j].name, e.candidate_rows[j].outcome)]

\* parse_county_votes_from_detail_html as the worker calls it: the builder is
\* handed state_df[["state", "election_id", "detail_url"]], which has no
\* candidate_id column, so candidate_id_map is None and the ids are the
\* positions of the header names; a table without candidate names raises and
\* the worker returns None
InvCountyRows(e) ==
    LET names == e.candidate_names
        idmap == PositionalMap(names, Len(names))
    IN  IF names = <<>> THEN <<>>
        ELSE Concat([k \in 1..Len(e.rows) |->
                 [j \in 1..Len(names) |->
                     [state |-> "virginia", election_id |-> e.election_id,
                      candidate_id |-> idmap[names[j]],
                      county_or_city |-> e.rows[k].county,
                      candidate_name |-> names[j],
                      votes |-> e.rows[k].cells[j]]]])

\* state_df[["state", "election_id", "detail_url"]].drop_duplicates(): the
\* elections that have a statewide row
unique_elections ==
    SelectSeq(inv_site, LAMBDA e : e.candidate_rows # <<>>)

\* as_completed: the orders in which the frames of the jobs can arrive
InvOrders(n) ==
    { p \in [1..n -> 1..n] : \A a, b \in 1..n : p[a] = p[b] => a = b }

\* fetch_all_search_results and rows_to_dataframe
InvScrapeState ==
    /\ inv_pc = "input"
    /\ inv_state' = Concat([i \in 1..Len(inv_site) |-> InvSearchRows(inv_site[i])])
    /\ inv_pc' = "state"
    /\ UNCHANGED <<inv_site, inv_county, inv_joined>>
    /\ UNCHANGED notInvVars

\* if state_df.empty: return state_df, pd.DataFrame(columns=COUNTY_COLS)
InvStateEmpty ==
    /\ inv_pc = "state"
    /\ inv_state = <<>>
    /\ inv_county' = <<>>
    /\ inv_pc' = "county"
    /\ UNCHANGED <<inv_site, inv_state, inv_joined>>
    /\ UNCHANGED notInvVars

\* build_county_dataframe_parallel(state_df=unique_elections, ...)
InvScrapeCounty ==
    /\ inv_pc = "state"
    /\ inv_state # <<>>
    /\ \E p \in InvOrders(Len(unique_elections)) :
          inv_county' = Concat([i \in 1..Len(unique_elections) |->
                                   InvCountyRows(unique_elections[p[i]])])
    /\ inv_pc' = "county"
    /\ UNCHANGED <<inv_site, inv_state, inv_joined>>
    /\ UNCHANGED notInvVars

\* _join_county_with_state: if county_all.empty or state_all.empty
InvJoinEmpty ==
    /\ inv_pc = "county"
    /\ inv_county = <<>> \/ inv_state = <<>>
    /\ inv_joined' = <<>>
    /\ inv_pc' = "done"
    /\ UNCHANGED <<inv_site, inv_state, inv_county>>
    /\ UNCHANGED notInvVars

\* _join_county_with_state: drop_duplicates on the keys, then the left merge
InvJoin ==
    /\ inv_pc = "county"
    /\ inv_county # <<>> /\ inv_state # <<>>
    /\ inv_joined' = LeftMerge(inv_county, DropDuplicates(inv_state))
    /\ inv_pc' = "done"
    /\ UNCHANGED <<inv_site, inv_state, inv_county>>
    /\ UNCHANGED notInvVars

NextInv ==
    \/ InvScrapeState
    \/ InvStateEmpty
    \/ InvScrapeCounty
    \/ InvJoinEmpty
    \/ InvJoin

SpecInv == InitInv /\ [][NextInv]_vars

\* the joined rows whose statewide columns are present
InvMatchedRows == {k \in 1..Len(inv_joined) : inv_joined[k].matched}

InvSameCandidate ==
    \A k \in InvMatchedRows :
        inv_joined[k].county.candidate_name = inv_joined[k].candidate

\* every detail table lists the candidates in the order of its search row
InvOrdersAgree ==
    \A i \in 1..Len(inv_site) :
        inv_site[i].candidate_names =
            [j \in 1..Len(inv_site[i].candidate_rows) |-> inv_site[i].candidate_rows[j].name]

\* C28 (as stated): within one invocation every joined row whose statewide
\* columns are present pairs a county row with the statewide row of the same
\* candidate, and the joined frame has one row per county row.
C28_JoinPairsTheSameCandidate ==
    inv_pc = "done" =>
        /\ InvSameCandidate
        /\ Len(inv_joined) = Len(inv_county)

\* C28 (what the code keeps): the joined frame has one row per county row,
\* and the join pairs a county row with the statewide row of the same
\* candidate when the detail tables list the candidates in the order of the
\* search rows.
C28_SameCandidateWhenOrdersAgree ==
    inv_pc = "done" =>
        /\ Len(inv_joined) = Len(inv_county)
        /\ InvOrdersAgree => InvSameCandidate

\* C28 witness: a joined row that carries the county votes of one candidate
\* and the statewide columns of another.
C28_Witness ==
    /\ inv_pc = "done"
    /\ \E k \in InvMatchedRows :
          inv_joined[k].county.candidate_name # inv_joined[k].candidate

(***************************************************************************)
(* NorthCarolina: choosing the results file of a downloaded archive        *)
(* io_utils._score_member and io_utils._select_results_member              *)
(* A member name is the sequence of its characters.                       *)

\* Most members of an archive the model explores.
MaxZipMembers == 3

UpperChars == <<"A", "B", "C", "D", "E", "F", "G", "H", "I", "J", "K", "L", "M", "N", "O", "P", "Q", "R", "S", "T", "U", "V", "W", "X", "Y", "Z">>
LowerChars == <<"a", "b", "c", "d", "e", "f", "g", "h", "i", "j", "k", "l", "m", "n", "o", "p", "q", "r", "s", "t", "u", "v", "w", "x", "y", "z">>

\* str.lower(), one character
ZipLowerChar(ch) ==
    IF \E k \in 1..26 : UpperChars[k] = ch
    THEN LowerChars[CHOOSE k \in 1..26 : UpperChars[k] = ch]
    ELSE ch

ZipLower(name) == [k \in 1..Len(name) |-> ZipLowerChar(name[k])]

\* \w of the regular expressions
IsWordChar(ch) ==
    \/ \E k \in 1..26 : UpperChars[k] = ch \/ LowerChars[k] = ch
    \/ IsDigitChar(ch)
    \/ ch = "_"

\* the pattern word stands at offset k of the name
RunAt(name, k, word) ==
    /\ k + Len(word) <= Len(name)
    /\ \A j \in 1..Len(word) : name[k + j] = word[j]

\* \bword\b for a word of word characters: no word character on either side
WordAt(name, k, word) ==
    /\ RunAt(name, k, word)
    /\ k = 0 \/ ~IsWordChar(name[k])
    /\ k + Len(word) = Len(name) \/ ~IsWordChar(name[k + Len(word) + 1])

w_results == <<"r", "e", "s", "u", "l", "t", "s">>
w_pct == <<"p", "c", "t">>
w_layout == <<"l", "a", "y", "o", "u", "t">>
w_readme == <<"r", "e", "a", "d", "m", "e">>
w_info == <<"i", "n", "f", "o">>
w_note == <<"n", "o", "t", "e">>

\* rx.search(name) for the five patterns, all compiled with re.IGNORECASE
RxSearch(rx, name) ==
    LET l == ZipLower(name)
    IN  CASE rx = "results[_-]?pct" ->
               \E k \in 0..Len(l) :
                   /\ RunAt(l, k, w_results)
                   /\ \/ RunAt(l, k + 7, w_pct)
                      \/ /\ k + 8 <= Len(l)
                         /\ l[k + 8] \in {"_", "-"}
                         /\ RunAt(l, k + 8, w_pct)
          [] rx = "\\bresults\\b" -> \E k \in 0..Len(l) : WordAt(l, k, w_results)
          [] rx = "\\bpct\\b" -> \E k \in 0..Len(l) : WordAt(l, k, w_pct)
          [] rx = "layout" -> ContainsRun(l, w_layout)
          [] rx = "readme|info|note" ->
               ContainsRun(l, w_readme) \/ ContainsRun(l, w_info) \/ ContainsRun(l, w_note)

_MEMBER_SCORE_RULES ==
    << [rx |-> "results[_-]?pct", s |-> 200],
       [rx |-> "\\bresults\\b", s |-> 40],
       [rx |-> "\\bpct\\b", s |-> 20],
       [rx |-> "layout", s |-> 0 - 500],
       [rx |-> "readme|info|note", s |-> 0 - 500] >>

\* name.lower().endswith((".txt", ".csv", ".tsv"))
IsDataFileName(name) ==
    LET l == ZipLower(name)
        n == Len(l)
    IN  /\ n >= 4
        /\ SubSeq(l, n - 3, n) \in { <<".", "t", "x", "t">>, <<".", "c", "s", "v">>,
                                     <<".", "t", "s", "v">> }

RECURSIVE RulesSum(_, _)
RulesSum(name, k) ==
    IF k = 0 THEN 0
    ELSE RulesSum(name, k - 1)
         + (IF RxSearch(_MEMBER_SCORE_RULES[k].rx, name) THEN _MEMBER_SCORE_RULES[k].s ELSE 0)

\* the rules without the two penalties
_score_member_NoPenalty(name) ==
    RulesSum(name, 3) + (IF IsDataFileName(name) THEN 20 ELSE 0)

_score_member(name) ==
    RulesSum(name, Len(_MEMBER_SCORE_RULES)) + (IF IsDataFileName(name) THEN 20 ELSE 0)

ZipNamePool ==
    {
      \* results_pct_2020.txt
      <<"r", "e", "s", "u", "l", "t", "s", "_", "p", "c", "t", "_", "2", "0", "2", "0", ".", "t", "x", "t">>,
      \* RESULTS PCT.TXT
      <<"R", "E", "S", "U", "L", "T", "S", " ", "P", "C", "T", ".", "T", "X", "T">>,
      \* results.pdf
      <<"r", "e", "s", "u", "l", "t", "s", ".", "p", "d", "f">>,
      \* pct.csv
      <<"p", "c", "t", ".", "c", "s", "v">>,
      \* data.tsv
      <<"d", "a", "t", "a", ".", "t", "s", "v">>,
      \* layout_results_pct.txt
      <<"l", "a", "y", "o", "u", "t", "_", "r", "e", "s", "u", "l", "t", "s", "_", "p", "c", "t", ".", "t", "x", "t">>,
      \* ReadMe.txt
      <<"R", "e", "a", "d", "M", "e", ".", "t", "x", "t">>,
      \* results-notes.csv
      <<"r", "e", "s", "u", "l", "t", "s", "-", "n", "o", "t", "e", "s", ".", "c", "s", "v">>,
      \* results_pct/
      <<"r", "e", "s", "u", "l", "t", "s", "_", "p", "c", "t", "/">>,
      \* precinct_info.TXT
      <<"p", "r", "e", "c", "i", "n", "c", "t", "_", "i", "n", "f", "o", ".", "T", "X", "T">>,
      \* sub/results-pct.csv
      <<"s", "u", "b", "/", "r", "e", "s", "u", "l", "t", "s", "-", "p", "c", "t", ".", "c", "s", "v">> }

\* the test of the fallback loop on ml = m.lower()
Plausible(m) ==
    LET ml == ZipLower(m)
    IN  /\ IsDataFileName(m)
        /\ ~(ContainsRun(ml, w_readme) \/ ContainsRun(ml, w_layout)
               \/ ContainsRun(ml, w_info) \/ ContainsRun(ml, w_note))

ZipInfo(filename, file_size) == [filename |-> filename, file_size |-> file_size]

\* The entries the archives are made of: every name with one size, the names
\* the fallback weighs with two.
ZipMemberPool ==
    {ZipInfo(n, 1) : n \in ZipNamePool}
    \cup { ZipInfo(<<"p", "c", "t", ".", "c", "s", "v">>, 2),
           ZipInfo(<<"d", "a", "t", "a", ".", "t", "s", "v">>, 2),
           ZipInfo(<<"R", "e", "a", "d", "M", "e", ".", "t", "x", "t">>, 2) }

ZipArchives == SeqsUpTo(ZipMemberPool, MaxZipMembers)

\* _score_member and the fallback test, tabulated over the names of the model
ScoreOf == [n \in ZipNamePool |-> _score_member(n)]
PlausibleNames == {n \in ZipNamePool : Plausible(n)}

InitZip ==
    /\ zip_members \in ZipArchives
    /\ zip_ret = <<>>
    /\ zip_pc = "input"
    /\ InitOthersIdleZip

\* m.endswith("/")
EndsWithSlash(name) == name # <<>> /\ name[Len(name)] = "/"

\* members = [m for m in zf.namelist() if not m.endswith("/")]
members ==
    LET namelist == [k \in 1..Len(zip_members) |-> zip_members[k].filename]
    IN  SelectSeq(namelist, LAMBDA m : ~EndsWithSlash(m))

\* scored[0] of sorted(..., key=score, reverse=True): the sort is stable, so
\* the first of the members with the greatest score
ScoredFirst(ms) ==
    LET k == CHOOSE k \in 1..Len(ms) :
                 /\ \A j \in 1..Len(ms) : ScoreOf[ms[j]] <= ScoreOf[ms[k]]
                 /\ \A j \in 1..(k - 1) : ScoreOf[ms[j]] < ScoreOf[ms[k]]
    IN  [best |-> ms[k], best_score |-> ScoreOf[ms[k]]]

\* zf.getinfo(m).file_size: a name resolves to the last entry that bears it
GetInfoSize(m) ==
    LET k == CHOOSE k \in 1..Len(zip_members) :
                 /\ zip_members[k].filename = m
                 /\ \A j \in (k + 1)..Len(zip_members) : zip_members[j].filename # m
    IN  zip_members[k].file_size

\* candidates, as (m, file_size) pairs in the order of members
ZipCandidates(ms) ==
    LET kept == SelectSeq(ms, LAMBDA m : m \in PlausibleNames)
    IN  [k \in 1..Len(kept) |-> [m |-> kept[k], file_size |-> GetInfoSize(kept[k])]]

\* candidates.sort(key=size, reverse=True); candidates[0][0]
LargestFirst(cs) ==
    LET k == CHOOSE k \in 1..Len(cs) :
                 /\ \A j \in 1..Len(cs) : cs[j].file_size <= cs[k].file_size
                 /\ \A j \in 1..(k - 1) : cs[j].file_size < cs[k].file_size
    IN  cs[k].m

\* if not members: raise ValueError("ZIP has no members")
ZipNoMembers ==
    /\ zip_pc = "input"
    /\ members = <<>>
    /\ zip_pc' = "raised"
    /\ UNCHANGED <<zip_members, zip_ret>>
    /\ UNCHANGED notZipVars

\* if best_score >= 50: return best
ZipReturnBest ==
    /\ zip_pc = "input"
    /\ members # <<>>
    /\ ScoredFirst(members).best_score >= 50
    /\ zip_ret' = ScoredFirst(members).best
    /\ zip_pc' = "best"
    /\ UNCHANGED zip_members
    /\ UNCHANGED notZipVars

\* if candidates: ... return candidates[0][0]
ZipReturnLargest ==
    /\ zip_pc = "input"
    /\ members # <<>>
    /\ ScoredFirst(members).best_score < 50
    /\ ZipCandidates(members) # <<>>
    /\ zip_ret' = LargestFirst(ZipCandidates(members))
    /\ zip_pc' = "largest"
    /\ UNCHANGED zip_members
    /\ UNCHANGED notZipVars

\* raise ValueError("Could not identify results file. ...")
ZipNoCandidate ==
    /\ zip_pc = "input"
    /\ members # <<>>
    /\ ScoredFirst(members).best_score < 50
    /\ ZipCandidates(members) = <<>>
    /\ zip_pc' = "raised"
    /\ UNCHANGED <<zip_members, zip_ret>>
    /\ UNCHANGED notZipVars

NextZip ==
    \/ ZipNoMembers
    \/ ZipReturnBest
    \/ ZipReturnLargest
    \/ ZipNoCandidate

SpecZip == InitZip /\ [][NextZip]_vars

\* the names of the entries that are not directories
ZipFileNames ==
    { zip_members[k].filename : k \in { j \in 1..Len(zip_members) :
          LET n == zip_members[j].filename IN n = <<>> \/ n[Len(n)] # "/" } }

\* the name contains "layout", "readme", "info" or "note", in any case
NamedAsNotes(name) ==
    \E w \in {w_layout, w_readme, w_info, w_note} : ContainsRun(ZipLower(name), w)

ZipDataFiles == {n \in ZipFileNames : IsDataFileName(n) /\ ~NamedAsNotes(n)}

ZipConfident == \E n \in ZipFileNames : ScoreOf[n] >= 50

\* C29: _select_results_member either raises or returns the name of a
\* non-directory member whose name contains none of "layout", "readme",
\* "info", "note" in any case: the highest-scoring member when that score is
\* at least 50, otherwise the largest .txt/.csv/.tsv member not so named, and
\* it raises exactly when there is no file member or no such candidate.
C29_ReturnsBestOrLargestDataFile ==
    zip_pc # "input" =>
        /\ zip_pc \in {"best", "largest"} =>
              zip_ret \in ZipFileNames /\ ~NamedAsNotes(zip_ret)
        /\ zip_pc = "best" <=> ZipConfident
        /\ zip_pc = "best" =>
              \A n \in ZipFileNames : ScoreOf[n] <= ScoreOf[zip_ret]
        /\ zip_pc = "largest" <=> ~ZipConfident /\ ZipDataFiles # {}
        /\ zip_pc = "largest" =>
              /\ zip_ret \in ZipDataFiles
              /\ \A n \in ZipDataFiles : GetInfoSize(n) <= GetInfoSize(zip_ret)
        /\ zip_pc = "raised" <=>
              ZipFileNames = {} \/ (~ZipConfident /\ ZipDataFiles = {})

\* C29 witness: the fallback returned a data file although a member named as
\* notes is larger and a directory entry scores above 50.
C29_Witness ==
    /\ zip_pc = "largest"
    /\ \E n \in ZipFileNames :
          NamedAsNotes(n) /\ IsDataFileName(n) /\ GetInfoSize(n) > GetInfoSize(zip_ret)
    /\ \E k \in 1..Len(zip_members) :
          /\ zip_members[k].filename \notin ZipFileNames
          /\ ScoreOf[zip_members[k].filename] >= 50

OutWinners(c) == {g \in OutChoices(c) : out[g].contest_outcome = "Winner"}
OutTiedWinners(c) == {g \in OutChoices(c) : out[g].contest_outcome = "Tied Winner"}

\* C30: in every output of aggregate_county_to_state each contest has
\* exactly one "Winner" and no "Tied Winner", or at least two "Tied Winner"
\* and no "Winner"; a contest whose choices all have 0 votes (missing or
\* non-numeric votes count 0) has all its choices "Tied Winner", or its sole
\* choice "Winner".
C30_OneWinnerOrSeveralTiedWinners ==
    AggDone =>
        \A c \in OutContests :
            /\ \/ Cardinality(OutWinners(c)) = 1 /\ OutTiedWinners(c) = {}
               \/ Cardinality(OutTiedWinners(c)) >= 2 /\ OutWinners(c) = {}
            /\ InputContestTotal(c) = 0 =>
                  IF Cardinality(OutChoices(c)) = 1
                  THEN OutWinners(c) = OutChoices(c)
                  ELSE OutTiedWinners(c) = OutChoices(c)

\* C30 witness: a contest of two choices without a vote, one of them with
\* a non-numeric count, both "Tied Winner", next to a contest with one
\* "Winner".
C30_Witness ==
    /\ AggDone
    /\ \E c \in OutContests :
          /\ InputContestTotal(c) = 0
          /\ Cardinality(OutChoices(c)) = 2
          /\ OutTiedWinners(c) = OutChoices(c)
          /\ \E k \in DOMAIN df_county.rows : k.contest = c /\ df_county.rows[k].na
    /\ \E c \in OutContests :
          Cardinality(OutWinners(c)) = 1 /\ OutTiedWinners(c) = {}

====
